---- MODULE Spec2Model ----
(***************************************************************************)
(* A model of the rA9 cognitive orchestration core:                        *)
(*   - the gating engine (ra9/core/gating_manager.py),                     *)
(*   - the global workspace, working memory and their manager              *)
(*     (ra9/core/global_workspace.py),                                     *)
(*   - the neuromodulation controller                                      *)
(*     (ra9/core/neuromodulation_controller.py),                           *)
(*   - the reasoner executor, the output validator and the critique        *)
(*     manager (ra9/core/local_reasoners.py, validators.py,                *)
(*     agent_critique.py),                                                 *)
(*   - the context preprocessor and the memory endpoints                   *)
(*     (ra9/router/context_preprocessor.py, ra9/server.py).                *)
(*                                                                         *)
(* Units.  Confidences are counted in twentieths (0.05), the neuromodulator *)
(* scalars a gating context carries in hundredths, the resource budget in  *)
(* thousandths of a budget unit, the controller's scalars in units of      *)
(* 1/NMUnit, and the clock in ticks of TickSeconds seconds.                *)
(***************************************************************************)
EXTENDS Integers, Sequences, FiniteSets, TLC

VARIABLES
    \* ---- clock shared by the gate, the workspace and the working memory
    now,
    \* ---- GateEngine / ResourceTracker
    quarantine,           \* GateEngine.quarantine
    gating_history,       \* GateEngine.gating_history
    current_budget,       \* ResourceTracker.current_budget (thousandths)
    last_update,          \* ResourceTracker.last_update
    consumption_history,  \* ResourceTracker.consumption_history
    gated_items,          \* the list evaluate_candidates returned last
    single_result,        \* the tuple evaluate_single returned last
    decisions,            \* every decision taken so far: candidate, caller context, outcome
    \* ---- GlobalWorkspace / WorkingMemory
    broadcast_items,      \* GlobalWorkspace.broadcast_items: id -> item
    last_cleanup,         \* GlobalWorkspace.last_cleanup
    broadcast_calls,      \* how many times broadcast has run
    active_slots,         \* WorkingMemory.active_slots
    last_decay,           \* WorkingMemory.last_decay
    query_result,         \* what the workspace query returned, if a query ran last
    \* ---- NeuromodulationController
    nm_state,             \* NeuromodulationController.state (the three scalars)
    nm_timestamp,         \* NeuromodulationController.state.timestamp
    nm_result,            \* what get_state returned, if get_state ran last
    nm_calls,             \* how many controller operations have run
    \* ---- ParallelReasonerExecutor / AgentCritiqueManager
    selected,             \* the reasoners given to the running execute_parallel call
    pending,              \* futures of that call not yet collected
    results,              \* the outputs that call has collected, in completion order
    exec_state,           \* "idle", "running" or "returned"
    max_allowed_issues,   \* AgentCritiqueManager.max_allowed_issues: <<>> is None
    critique_result,      \* what critique_agent_output did and returned, last call first
    rs_calls,             \* how many executor and manager calls have run
    \* ---- context preprocessor
    wm_ring,              \* _WM_RING
    wm_store,             \* the persisted working memory of each user
    ctx_result,           \* what preprocess_context returned last
    ctx_calls,            \* how many preprocess_context calls have run
    \* ---- memory store and endpoints
    memory_items,         \* the rows of memory_items
    mem_result,           \* what the last retrieval returned
    mem_calls,            \* how many memory operations have run
    \* ---- subscribers of the workspace and the threads that broadcast
    subscribers,          \* GlobalWorkspace.subscribers: the ids subscribed
    subscription_topics,  \* GlobalWorkspace.subscription_topics: topic -> ids
    printed,              \* the error lines printed by the loops that call callbacks
    lock_owner,           \* the thread that holds GlobalWorkspace.lock, or "none"
    lock_count,           \* how many times the owner has acquired the lock
    stacks,               \* for each thread, its broadcast() calls in progress
    observed,             \* for each subscriber, the ids of the items its callback got
    return_order,         \* the ids of the items in the order broadcast() returned
    \* ---- GlobalWorkspaceManager.broadcast_and_store step by step, and a reader
    co_call,              \* the broadcast_and_store call in progress: <<>> when none
    reader_call,          \* the reader's reads in progress: <<>> when none
    reader_view,          \* what the reader's last pair of reads found
    \* ---- NeuromodulationController with update callbacks
    update_callbacks,     \* NeuromodulationController.update_callbacks
    nm_notified,          \* the callbacks the last update called, in order
    \* ---- query classifier
    classified,           \* what classify_query returned or raised last
    classify_calls,       \* how many classify_query calls have run
    \* ---- ask_gemini under tenacity's retry
    llm_attempts,         \* what happened in each attempt of the call, in order
    llm_status,           \* "idle", "running", "returned" or "raised"
    llm_result,           \* what the call returned: <<>> when it has not
    llm_calls,            \* how many ask_gemini calls have begun
    \* ---- query entry points and the memory records they store
    queries,              \* the queries served: entry point, text, flag and outcome
    records,              \* the records stored: kind and number of the query
    user_info,            \* the queries whose user name store_user_info kept
    council_result,       \* what the last CouncilPipeline.run returned or raised
    \* ---- meta-coherence engine
    coherence_result,     \* what the last analyze_coherence was given and returned
    coherence_history,    \* MetaCoherenceEngine.coherence_history
    coherence_calls,      \* how many analyze_coherence calls have run
    \* ---- AdaptiveGatingPolicy
    success_history,      \* AdaptiveGatingPolicy.success_history (ticks)
    failure_history,      \* AdaptiveGatingPolicy.failure_history (ticks)
    adaptive_min_confidence, \* adaptive_thresholds['min_confidence'], millionths
    adaptive_verdict,     \* what the policy's last should_gate was given and returned
    adaptive_calls,       \* how many calls of the adaptive policy have run
    last_op               \* the operation that ran last

gateVars == <<quarantine, gating_history, current_budget, last_update,
              consumption_history, gated_items, single_result, decisions>>
wsVars == <<broadcast_items, last_cleanup, broadcast_calls, active_slots, last_decay, query_result>>
nmVars == <<nm_state, nm_timestamp, nm_result, nm_calls>>
rsVars == <<selected, pending, results, exec_state, max_allowed_issues, critique_result,
           rs_calls>>
ctxVars == <<wm_ring, wm_store, ctx_result, ctx_calls>>
memVars == <<memory_items, mem_result, mem_calls>>
pubVars == <<subscribers, subscription_topics, printed, lock_owner, lock_count, stacks,
             observed, return_order>>
coVars == <<co_call, reader_call, reader_view>>
\* The variables of the threads, which the calls taken as single steps leave alone.
cbVars == <<update_callbacks, nm_notified>>
qcVars == <<classified, classify_calls>>
llmVars == <<llm_attempts, llm_status, llm_result, llm_calls>>
queryVars == <<queries, records, user_info, council_result>>
coherenceVars == <<coherence_result, coherence_history, coherence_calls>>
adaptiveVars == <<success_history, failure_history, adaptive_min_confidence,
                  adaptive_verdict, adaptive_calls>>
otherVars == <<pubVars, coVars, cbVars, qcVars, llmVars, queryVars, coherenceVars, adaptiveVars>>
vars == <<now, gateVars, wsVars, nmVars, rsVars, ctxVars, memVars, otherVars, last_op>>

\* ------------------------------------------------------------------ helpers

Min(a, b) == IF a < b THEN a ELSE b
Max(a, b) == IF a > b THEN a ELSE b

RECURSIVE Pow(_, _)
Pow(b, k) == IF k = 0 THEN 1 ELSE b * Pow(b, k - 1)

\* A slice that keeps the whole list.
WholeList(seq, n) == seq

\* seq[-n:]
LastN(seq, n) == IF Len(seq) > n THEN SubSeq(seq, Len(seq) - n + 1, Len(seq)) ELSE seq

\* seq[:n]
FirstN(seq, n) == IF Len(seq) > n THEN SubSeq(seq, 1, n) ELSE seq

\* ------------------------------------------------------------------ bounds

MaxTime == 14          \* the clock stops here
MaxGateCalls == 2      \* gating decisions taken before the gate stops taking calls
MaxBatch == 2          \* candidates in one evaluate_candidates call
MaxGateTime == 2       \* the clock of the gate alone stops here
MaxShortTime == 1      \* single ticks are taken up to here
MaxBroadcasts == 4     \* calls of broadcast and broadcast_and_store

\* ------------------------------------------------------------------ schemas

AgentType == {"logical", "emotional", "creative", "strategic", "verifier", "arbiter"}

TickSeconds == 300     \* one tick of the clock, in seconds
ConfOne == 20          \* confidence 1.0, in twentieths

\* Metadata of a candidate.  "T" is {'passed': True}, "F" is {'passed': False},
\* "none" is an absent key.
NoMetadata ==
    [agentCritique |-> "none", agent_critique |-> "none", verifier |-> "none",
     speculative |-> FALSE, disclaimer |-> ""]

Disclaimer == "Speculative: low confidence content; treat cautiously."

\* The candidates the callers hand to the gate and to the workspace.  Each is a
\* BroadcastItem (or an AgentOutput) as the dataclasses of schemas.py build it;
\* timestamp is set when the item is created.  text is the words of the text,
\* len its length in characters.
BaseItem ==
    [kind |-> "BroadcastItem", id |-> "", text |-> <<"foo">>, len |-> 3, trace_len |-> 0,
     contributors |-> {"logical"}, confidence |-> 18, speculative |-> FALSE,
     metadata |-> NoMetadata, timestamp |-> 0]

ItemShape(name) ==
    CASE name = "passed" ->
           [BaseItem EXCEPT !.id = "passed",
                            !.metadata = [NoMetadata EXCEPT !.agentCritique = "T"]]
      [] name = "spec" ->
           [BaseItem EXCEPT !.id = "spec", !.contributors = {"creative"},
                            !.text = <<"bar", "idea">>, !.len = 8,
                            !.confidence = 11, !.speculative = TRUE,
                            !.metadata = [NoMetadata EXCEPT !.agent_critique = "T",
                                                            !.speculative = TRUE,
                                                            !.disclaimer = Disclaimer]]
      [] name = "bare" ->
           [BaseItem EXCEPT !.id = "bare", !.confidence = 20]
      [] name = "verified" ->
           [BaseItem EXCEPT !.id = "verified", !.contributors = {"creative", "logical"},
                            !.confidence = 4,
                            !.metadata = [NoMetadata EXCEPT !.agentCritique = "F",
                                                            !.verifier = "T"]]
      [] name = "big" ->
           [BaseItem EXCEPT !.id = "big", !.len = 99000, !.confidence = 10,
                            !.metadata = [NoMetadata EXCEPT !.agentCritique = "T"]]
      [] name = "mid" ->
           [BaseItem EXCEPT !.id = "mid", !.confidence = 10,
                            !.metadata = [NoMetadata EXCEPT !.agentCritique = "T"]]
      [] name = "failed" ->
           [BaseItem EXCEPT !.id = "failed", !.confidence = 16,
                            !.metadata = [NoMetadata EXCEPT !.agentCritique = "F",
                                                            !.agent_critique = "T"]]
      [] name = "output" ->
           [BaseItem EXCEPT !.kind = "AgentOutput", !.id = "output", !.trace_len = 2,
                            !.confidence = 16]

ShapeNames == {"passed", "spec", "bare", "verified", "big", "mid", "failed", "output"}

\* Shapes broadcast to the workspace alone, and shapes the pipeline handles.
WorkspaceShapes == {"passed", "spec", "bare", "verified"}
PipelineShapes == {"passed", "spec", "bare"}

NewItem(name, t) == [ItemShape(name) EXCEPT !.timestamp = t]

\* NeuromodulatorState defaults (hundredths).
DefaultNeuromodulatorState ==
    [attention_gain |-> 100, explore_noise |-> 20, reward_signal |-> 0]

\* The contexts the callers pass.  resource_budget (thousandths) and
\* speculative_ratio (hundredths) are what the caller wrote into the context.
DefaultContext ==
    [neuromodulator_state |-> DefaultNeuromodulatorState,
     resource_budget |-> 1000, speculative_ratio |-> 0, query_intent |-> {}]

Contexts ==
    { DefaultContext,
      [neuromodulator_state |-> DefaultNeuromodulatorState,
       resource_budget |-> 1000, speculative_ratio |-> 0,
       query_intent |-> {"logical", "creative"}],
      [neuromodulator_state |->
           [attention_gain |-> 10, explore_noise |-> 0, reward_signal |-> -100],
       resource_budget |-> 1000, speculative_ratio |-> 0, query_intent |-> {}],
      [neuromodulator_state |->
           [attention_gain |-> 200, explore_noise |-> 100, reward_signal |-> 100],
       resource_budget |-> 0, speculative_ratio |-> 100, query_intent |-> {"creative"}] }

\* ------------------------------------------------------------------ gating policy

min_confidence_threshold == 6     \* 0.3
max_speculative_ratio == 50       \* 0.5, hundredths
LowBudget == 100                  \* 0.1 budget units
HighConfidence == 14              \* 0.7

\* Adjusted confidences are fractions over AdjDen.
AdjDen == ConfOne * 100 * 100 * 100

\* DeterministicGatingPolicy._apply_neuromodulator_adjustments
apply_neuromodulator_adjustments(confidence, nm, contributors) ==
    LET attention_factor == 100 + (30 * (nm.attention_gain - 100)) \div 100
        explore_factor ==
            IF "creative" \in contributors \/ "strategic" \in contributors
            THEN 100 + (20 * nm.explore_noise) \div 100
            ELSE 100
        reward_factor ==
            IF nm.reward_signal > 0
            THEN 100 + (10 * nm.reward_signal) \div 100
            ELSE 100
    IN  Min(confidence * attention_factor * explore_factor * reward_factor, AdjDen)

\* DeterministicGatingPolicy._calculate_priority_boost: the number of times the
\* boost is multiplied by priority_boost_factor (1.2 = 6/5).
calculate_priority_boost(contributors, context) ==
    LET hit(intent, agent) ==
            IF intent \in context.query_intent /\ agent \in contributors THEN 1 ELSE 0
    IN  hit("logical", "logical") + hit("creative", "creative")
        + hit("factual", "verifier") + hit("personal", "emotional")

\* A threshold given in twentieths, as a numerator over AdjDen.
ThresholdNum(threshold) == threshold * (AdjDen \div ConfOne)

\* DeterministicGatingPolicy.should_gate.  confidence is the pair
\* <<numerator over AdjDen, boosts applied>>: the value is
\* numerator/AdjDen * 1.2^boosts.
should_gate(item, context) ==
    LET adjusted == apply_neuromodulator_adjustments(
                        item.confidence, context.neuromodulator_state,
                        item.contributors)
        is_speculative == IF item.kind = "BroadcastItem" THEN item.speculative ELSE FALSE
        boosts == calculate_priority_boost(item.contributors, context)
    IN  IF adjusted < ThresholdNum(min_confidence_threshold)
        THEN [gate |-> FALSE, confidence |-> <<adjusted, 0>>,
              reason |-> <<"Below confidence threshold", "">>]
        ELSE IF is_speculative /\ context.speculative_ratio >= max_speculative_ratio
        THEN [gate |-> FALSE, confidence |-> <<adjusted, 0>>,
              reason |-> <<"Speculative ratio limit exceeded", "">>]
        ELSE IF context.resource_budget < LowBudget
                /\ adjusted < ThresholdNum(HighConfidence)
        THEN [gate |-> FALSE, confidence |-> <<adjusted, 0>>,
              reason |-> <<"Low resource budget, only high-confidence items allowed", "">>]
        ELSE [gate |-> adjusted * Pow(6, boosts)
                           >= ThresholdNum(min_confidence_threshold) * Pow(5, boosts),
              confidence |-> <<adjusted, boosts>>,
              reason |-> <<"Confidence", "">>]

\* ------------------------------------------------------------------ AdaptiveGatingPolicy

MaxAdaptiveCalls == 4     \* calls of the adaptive policy in one behaviour
HourSeconds == 3600       \* the window of the recent success rate
HistorySeconds == 86400   \* the feedback record_feedback keeps
ThresholdFloor == 100000  \* 0.1, millionths
ThresholdCeiling == 900000 \* 0.9, millionths

\* A value given in twentieths, in millionths.
Millionths(c) == c * (1000000 \div ConfOne)

\* The confidence should_gate returns, <<numerator over AdjDen, boosts>>, in
\* millionths.
FinalMillionths(confidence) ==
    (confidence[1] * Pow(6, confidence[2]))
        \div ((AdjDen \div 1000000) * Pow(5, confidence[2]))

\* AdaptiveGatingPolicy._calculate_recent_success_rate at t: the pair
\* <<successes, total>> of the last hour, <<1, 2>> (0.5) when there are none.
calculate_recent_success_rate(successes, failures, t) ==
    LET recent(h) ==
            Cardinality({i \in 1..Len(h) :
                             h[i] * TickSeconds > t * TickSeconds - HourSeconds})
        total_recent == recent(successes) + recent(failures)
    IN  IF successes = <<>> /\ failures = <<>> THEN <<1, 2>>
        ELSE IF total_recent = 0 THEN <<1, 2>>
        ELSE <<recent(successes), total_recent>>

\* The adjustment (hundredths) _apply_adaptive_adjustments multiplies the
\* confidence by.
adaptive_adjustment(rate) ==
    IF rate[1] * 10 > 8 * rate[2] THEN 95
    ELSE IF rate[1] * 2 < rate[2] THEN 105
    ELSE 100

\* AdaptiveGatingPolicy._update_thresholds: the threshold after the call
\* (millionths, rounded down).
update_thresholds(threshold, rate) ==
    LET moved == IF rate[1] * 10 > 8 * rate[2] THEN (threshold * 99) \div 100
                 ELSE IF rate[1] * 2 < rate[2] THEN (threshold * 101) \div 100
                 ELSE threshold
    IN  Max(ThresholdFloor, Min(ThresholdCeiling, moved))

\* AdaptiveGatingPolicy.should_gate: the decision is the base policy's; the
\* confidence returned is final * adjustment / 100.
adaptive_should_gate(item, context, rate, threshold) ==
    LET base == should_gate(item, context)
    IN  [gate |-> base.gate,
         final |-> FinalMillionths(base.confidence),
         adjustment |-> adaptive_adjustment(rate)]

\* What a call of the adaptive policy leaves alone.
AdaptiveFrame ==
    /\ adaptive_calls < MaxAdaptiveCalls
    /\ adaptive_calls' = adaptive_calls + 1
    /\ UNCHANGED <<now, gateVars, wsVars, nmVars, rsVars, ctxVars, memVars, pubVars,
                   coVars, cbVars, qcVars, llmVars, queryVars, coherenceVars>>

\* AdaptiveGatingPolicy.should_gate(item, context)
AdaptiveShouldGate(item, context) ==
    LET rate == calculate_recent_success_rate(success_history, failure_history, now)
        verdict == adaptive_should_gate(item, context, rate, adaptive_min_confidence)
    IN  /\ AdaptiveFrame
        /\ adaptive_verdict' = <<[item |-> item.id, gate |-> verdict.gate,
                                  final |-> verdict.final,
                                  adjustment |-> verdict.adjustment,
                                  threshold |-> adaptive_min_confidence]>>
        /\ adaptive_min_confidence' = update_thresholds(adaptive_min_confidence, rate)
        /\ last_op' = "adaptive_should_gate"
        /\ UNCHANGED <<success_history, failure_history>>

\* AdaptiveGatingPolicy.record_feedback(item_id, success): the timestamp is
\* the clock's, and feedback older than 24 hours is dropped.
RecordFeedback(success) ==
    LET kept(h) == SelectSeq(h, LAMBDA s :
                       s * TickSeconds > now * TickSeconds - HistorySeconds)
    IN  /\ AdaptiveFrame
        /\ success_history' =
               kept(IF success THEN Append(success_history, now) ELSE success_history)
        /\ failure_history' =
               kept(IF success THEN failure_history ELSE Append(failure_history, now))
        /\ last_op' = "record_feedback"
        /\ UNCHANGED <<adaptive_min_confidence, adaptive_verdict>>

\* The items handed to the adaptive policy: one at the threshold, one above and
\* one below.
AdaptiveItems ==
    {[BaseItem EXCEPT !.id = "edge", !.confidence = min_confidence_threshold],
     ItemShape("mid"), ItemShape("verified")}

\* ------------------------------------------------------------------ ResourceTracker

max_budget == 100000        \* 100.0 budget units
RestorePerMinute == 10000   \* decay_rate (0.1) * max_budget, per minute
HistoryCap == 1000          \* entries kept in the histories

\* ResourceTracker.estimate_resource_cost (thousandths): len(text)/1000 budget
\* units is len thousandths.
estimate_resource_cost(item) ==
    IF item.kind = "BroadcastItem"
    THEN 1000 + (1000 - item.confidence * (1000 \div ConfOne)) + item.len
    ELSE IF item.kind = "AgentOutput"
    THEN 500 + (1000 - item.confidence * (1000 \div ConfOne)) + item.trace_len * 100
    ELSE 1000

\* ResourceTracker._apply_decay: the budget and last_update after the call at t.
apply_decay(budget, last, t) ==
    IF t > last
    THEN [budget |-> Min(max_budget,
                         budget + RestorePerMinute * (((t - last) * TickSeconds) \div 60)),
          last |-> t]
    ELSE [budget |-> budget, last |-> last]

\* The last HistoryCap entries of a history.
KeepRecent(h) ==
    IF Len(h) > HistoryCap THEN SubSeq(h, Len(h) - HistoryCap + 1, Len(h)) ELSE h

\* A consumption that subtracts the cost whatever is left.
ConsumeUnclamped(budget, history, item, t) ==
    LET cost == estimate_resource_cost(item)
    IN  [budget |-> budget - cost,
         history |-> Append(history,
                        [timestamp |-> t, cost |-> cost, remaining_budget |-> budget - cost])]

\* ResourceTracker.consume_resources: the budget and the history after it.
consume_resources(budget, history, item, t) ==
    LET cost == estimate_resource_cost(item)
        left == Max(0, budget - cost)
    IN  [budget |-> left,
         history |-> KeepRecent(Append(history,
                        [timestamp |-> t, cost |-> cost, remaining_budget |-> left]))]

\* A ratio that follows the tracker's history: all speculative once anything was
\* consumed.
SpeculativeShare(history, t) == IF history = <<>> THEN 0 ELSE 100

\* ResourceTracker.get_speculative_ratio (hundredths)
get_speculative_ratio(history, t) ==
    IF history = <<>> THEN 0
    ELSE LET recent_items ==
                 {i \in 1..Len(history) : (t - history[i].timestamp) * TickSeconds < 300}
         IN  IF recent_items = {} THEN 0 ELSE 0

\* ------------------------------------------------------------------ GateEngine

\* GateEngine._calculate_recent_gating_rate, in decisions per five minutes
calculate_recent_gating_rate(history, t) ==
    Cardinality({i \in 1..Len(history) : (t - history[i].timestamp) * TickSeconds < 300})

\* GateEngine._get_current_context, given the tracker after get_remaining_budget
get_current_context(budget, history, consumption, t) ==
    [resource_budget |-> budget,
     speculative_ratio |-> get_speculative_ratio(consumption, t),
     gating_history_size |-> Len(history),
     recent_gating_rate |-> calculate_recent_gating_rate(history, t)]

\* A context left as the caller wrote it.
CallerContext(context, current) == context

\* context.copy(); context.update(self._get_current_context()): the keys the
\* policy reads.
UpdatedContext(context, current) ==
    [context EXCEPT !.resource_budget = current.resource_budget,
                    !.speculative_ratio = current.speculative_ratio]

\* GateEngine._record_gating_decision
record_gating_decision(history, item, gate, confidence, reason, t) ==
    KeepRecent(Append(history,
        [timestamp |-> t, item_type |-> item.kind, should_gate |-> gate,
         confidence |-> confidence, reason |-> reason,
         resource_consumed |-> estimate_resource_cost(item)]))

\* A gate without the quality rule: every candidate is allowed.
NoQualityGate(item) == TRUE

\* The quality gate of evaluate_candidates: the critique report is the one under
\* 'agentCritique' when that key holds a non-empty mapping, else the one under
\* 'agent_critique'.
quality_allowed(item) ==
    LET metadata == IF item.kind = "BroadcastItem" THEN item.metadata ELSE NoMetadata
        agent_critique ==
            IF metadata.agentCritique # "none" THEN metadata.agentCritique
            ELSE metadata.agent_critique
    IN  agent_critique = "T" \/ metadata.verifier = "T"

\* The loop of evaluate_candidates from candidate i on.  st carries the engine's
\* fields and the list to return; context was read once, before the loop.  The
\* entry logged for a decision holds the budget the policy was shown (budget),
\* the tracker's budget when the decision was made (remaining), and the number
\* of decisions made before the call began (call).
RECURSIVE GateLoop(_, _, _, _, _, _)
GateLoop(candidates, i, st, context, caller_context, t) ==
    IF i > Len(candidates) THEN st
    ELSE LET candidate == candidates[i]
             verdict == should_gate(candidate, context)
             log(gate) == Append(st.decisions,
                             [item |-> candidate, context |-> caller_context,
                              budget |-> context.resource_budget,
                              remaining |-> st.current_budget,
                              call |-> Len(st.decisions) - (i - 1), gate |-> gate,
                              op |-> "evaluate_candidates"])
         IN  IF ~quality_allowed(candidate)
             THEN GateLoop(candidates, i + 1,
                      [st EXCEPT
                          !.quarantine = Append(@, candidate),
                          !.gating_history = record_gating_decision(@, candidate, FALSE,
                              <<0, 0>>,
                              <<"Blocked by quality gate", "No critic/verifier pass">>, t),
                          !.decisions = log(FALSE)],
                      context, caller_context, t)
             ELSE IF verdict.gate
             THEN LET used == consume_resources(st.current_budget,
                                  st.consumption_history, candidate, t)
                  IN  GateLoop(candidates, i + 1,
                          [st EXCEPT
                              !.gating_history = record_gating_decision(@, candidate,
                                  TRUE, verdict.confidence, verdict.reason, t),
                              !.gated_items = Append(@, candidate),
                              !.current_budget = used.budget,
                              !.consumption_history = used.history,
                              !.decisions = log(TRUE)],
                          context, caller_context, t)
             ELSE GateLoop(candidates, i + 1,
                      [st EXCEPT
                          !.gating_history = record_gating_decision(@, candidate,
                              FALSE, verdict.confidence, verdict.reason, t),
                          !.decisions = log(FALSE)],
                      context, caller_context, t)

\* GateEngine.evaluate_candidates(candidates, context)
evaluate_candidates(candidates, context) ==
    LET tracker == apply_decay(current_budget, last_update, now)
        current == get_current_context(tracker.budget, gating_history,
                                       consumption_history, now)
        st == GateLoop(candidates, 1,
                  [quarantine |-> quarantine, gating_history |-> gating_history,
                   current_budget |-> tracker.budget,
                   consumption_history |-> consumption_history,
                   gated_items |-> <<>>, decisions |-> decisions],
                  UpdatedContext(context, current), context, now)
    IN  /\ Len(decisions) + Len(candidates) <= MaxGateCalls
        /\ quarantine' = st.quarantine
        /\ gating_history' = st.gating_history
        /\ current_budget' = st.current_budget
        /\ last_update' = tracker.last
        /\ consumption_history' = st.consumption_history
        /\ gated_items' = st.gated_items
        /\ decisions' = st.decisions
        /\ last_op' = "evaluate_candidates"
        /\ UNCHANGED <<now, otherVars, single_result, wsVars, nmVars, rsVars, ctxVars, memVars>>

\* GateEngine.evaluate_single(item, context)
evaluate_single(item, context) ==
    LET tracker == apply_decay(current_budget, last_update, now)
        current == get_current_context(tracker.budget, gating_history,
                                       consumption_history, now)
        verdict == should_gate(item, UpdatedContext(context, current))
        used == consume_resources(tracker.budget, consumption_history, item, now)
    IN  /\ Len(decisions) + 1 <= MaxGateCalls
        /\ gating_history' = record_gating_decision(gating_history, item,
                                 verdict.gate, verdict.confidence, verdict.reason, now)
        /\ current_budget' = IF verdict.gate THEN used.budget ELSE tracker.budget
        /\ consumption_history' =
               IF verdict.gate THEN used.history ELSE consumption_history
        /\ last_update' = tracker.last
        /\ single_result' = <<verdict.gate, verdict.confidence, verdict.reason>>
        /\ decisions' = Append(decisions,
                            [item |-> item, context |-> context,
                             budget |-> tracker.budget, remaining |-> tracker.budget,
                             call |-> Len(decisions), gate |-> verdict.gate,
                             op |-> "evaluate_single"])
        /\ last_op' = "evaluate_single"
        /\ UNCHANGED <<now, otherVars, quarantine, gated_items, wsVars, nmVars, rsVars, ctxVars,
                       memVars>>

\* ------------------------------------------------------------------ GlobalWorkspace

max_items == 2           \* GlobalWorkspace.max_items of the modelled workspace
item_ttl == 3600         \* seconds
cleanup_interval == 300  \* seconds
DaySeconds == 86400      \* timedelta.seconds counts the seconds within a day
TtlTicks == item_ttl \div TickSeconds    \* item_ttl, in ticks of the clock

\* broadcast_items is a dict: a sequence of items in insertion order, one per id.
Ids(items) == {items[i].id : i \in 1..Len(items)}

\* self.broadcast_items[item.id] = item
DictPut(items, item) ==
    IF item.id \in Ids(items)
    THEN [i \in 1..Len(items) |-> IF items[i].id = item.id THEN item ELSE items[i]]
    ELSE Append(items, item)

\* Position of the first item of the dict, in insertion order.
FirstIndex(items) == 1

\* Position of the first item with the smallest timestamp.
OldestIndex(items) ==
    CHOOSE i \in 1..Len(items) :
        /\ \A j \in 1..Len(items) : items[i].timestamp <= items[j].timestamp
        /\ \A j \in 1..(i - 1) : items[j].timestamp > items[i].timestamp

RemoveAt(seq, i) == SubSeq(seq, 1, i - 1) \o SubSeq(seq, i + 1, Len(seq))

\* Deleting the first n entries of sorted(items, key=timestamp).
RECURSIVE DropOldest(_, _)
DropOldest(items, n) ==
    IF n = 0 \/ items = <<>> THEN items
    ELSE DropOldest(RemoveAt(items, OldestIndex(items)), n - 1)

\* GlobalWorkspace._cleanup_if_needed: the items and last_cleanup after it.
cleanup_if_needed(items, last, t) ==
    IF ((t - last) * TickSeconds) % DaySeconds < cleanup_interval
    THEN [items |-> items, last |-> last]
    ELSE LET fresh(item) == ~((t - item.timestamp) * TickSeconds > item_ttl)
             kept == SelectSeq(items, fresh)
         IN  [items |-> IF Len(kept) > max_items
                        THEN DropOldest(kept, Len(kept) - max_items)
                        ELSE kept,
              last |-> t]

\* GlobalWorkspace.broadcast: the items and last_cleanup after it.
broadcast(items, last, item, t) == cleanup_if_needed(DictPut(items, item), last, t)

\* ------------------------------------------------------------------ WorkingMemory

max_slots == 2        \* WorkingMemory.max_slots of the modelled memory
DecayDen == 128       \* decay 1.0; decays are numerators over DecayDen

\* WorkingMemory._apply_decay: decay_rate is 0.1 per minute, so the factor over
\* d ticks is 1 - 0.1 * 5 * d = (2 - d) / 2.
wm_apply_decay(slots, last, t) ==
    IF t > last
    THEN LET d == ((t - last) * TickSeconds) \div 60
             decayed == [i \in 1..Len(slots) |->
                            [slots[i] EXCEPT !.decay = Max(0, (@ * (10 - d)) \div 10)]]
             alive(rep) == rep.decay * 100 > DecayDen
         IN  [slots |-> SelectSeq(decayed, alive), last |-> t]
    ELSE [slots |-> slots, last |-> last]

\* (priority, decay) of a is greater than that of b
KeyGreater(a, b) ==
    a.priority > b.priority \/ (a.priority = b.priority /\ a.decay > b.decay)

\* Position of the first slot with the greatest (priority, decay).
BestIndex(slots) ==
    CHOOSE i \in 1..Len(slots) :
        /\ \A j \in 1..Len(slots) : ~KeyGreater(slots[j], slots[i])
        /\ \A j \in 1..(i - 1) : KeyGreater(slots[i], slots[j])

\* The slots in the order they have.
Unsorted(slots) == slots

\* sort(key=(priority, decay), reverse=True): stable, greatest first.
RECURSIVE SortSlots(_)
SortSlots(slots) ==
    IF slots = <<>> THEN <<>>
    ELSE LET i == BestIndex(slots)
         IN  <<slots[i]>> \o SortSlots(RemoveAt(slots, i))

\* WorkingMemory.add_representation: the slots and last_decay after it.
add_representation(slots, last, content, source_agents, priority, metadata, t) ==
    LET decayed == wm_apply_decay(slots, last, t)
        representation ==
            [content |-> content, source_agents |-> source_agents, timestamp |-> t,
             decay |-> DecayDen, priority |-> priority, metadata |-> metadata]
        added == Append(decayed.slots, representation)
    IN  [slots |-> IF Len(added) > max_slots
                   THEN SubSeq(SortSlots(added), 1, max_slots)
                   ELSE added,
         last |-> decayed.last]

\* ------------------------------------------------------------------ actions of the gate and the workspace

\* The items a caller can hold: the ones it gave to the gate earlier, and the
\* ones it builds now.
CallerItems ==
    {decisions[i].item : i \in 1..Len(decisions)} \cup {NewItem(n, now) : n \in ShapeNames}

\* The items the gate let through: the list evaluate_candidates returned last, and
\* the items evaluate_single answered True for.
Admitted ==
    {gated_items[i] : i \in 1..Len(gated_items)}
        \cup {decisions[i].item : i \in {j \in 1..Len(decisions) :
                   decisions[j].op = "evaluate_single" /\ decisions[j].gate}}

\* GlobalWorkspace.broadcast(item)
Broadcast(item) ==
    LET ws == broadcast(broadcast_items, last_cleanup, item, now)
    IN  /\ broadcast_calls < MaxBroadcasts
        /\ broadcast_calls' = broadcast_calls + 1
        /\ broadcast_items' = ws.items
        /\ last_cleanup' = ws.last
        /\ query_result' = <<>>
        /\ last_op' = "broadcast"
        /\ UNCHANGED <<now, otherVars, gateVars, active_slots, last_decay, nmVars, rsVars, ctxVars,
                       memVars>>

\* GlobalWorkspaceManager.broadcast_and_store(item, store_in_wm)
BroadcastAndStore(item, store_in_wm) ==
    LET ws == broadcast(broadcast_items, last_cleanup, item, now)
        wm == add_representation(active_slots, last_decay, item.text, item.contributors,
                  item.confidence,
                  [broadcast_id |-> item.id, speculative |-> item.speculative], now)
    IN  /\ broadcast_calls < MaxBroadcasts
        /\ broadcast_calls' = broadcast_calls + 1
        /\ broadcast_items' = ws.items
        /\ last_cleanup' = ws.last
        /\ active_slots' = IF store_in_wm THEN wm.slots ELSE active_slots
        /\ last_decay' = IF store_in_wm THEN wm.last ELSE last_decay
        /\ query_result' = <<>>
        /\ last_op' = "broadcast_and_store"
        /\ UNCHANGED <<now, otherVars, gateVars, nmVars, rsVars, ctxVars, memVars>>

\* A query returns result and changes nothing in the workspace.
Query(name, result) ==
    /\ query_result' = result
    /\ last_op' = name
    /\ UNCHANGED <<now, otherVars, gateVars, broadcast_items, last_cleanup, broadcast_calls,
                   active_slots, last_decay, nmVars, rsVars, ctxVars, memVars>>

\* GlobalWorkspace.get_item(item_id)
GetItem(item_id) ==
    Query("get_item", SelectSeq(broadcast_items, LAMBDA item : item.id = item_id))

\* GlobalWorkspace.get_items_by_agent(agent)
GetItemsByAgent(agent) ==
    Query("get_items_by_agent",
          SelectSeq(broadcast_items, LAMBDA item : agent \in item.contributors))

\* GlobalWorkspace.get_items_by_confidence(min_confidence)
GetItemsByConfidence(min_confidence) ==
    Query("get_items_by_confidence",
          SelectSeq(broadcast_items, LAMBDA item : item.confidence >= min_confidence))

\* GlobalWorkspace.get_recent_items(minutes), minutes a multiple of five
GetRecentItems(ticks) ==
    Query("get_recent_items",
          SelectSeq(broadcast_items, LAMBDA item : item.timestamp >= now - ticks))

\* (confidence, timestamp) of a is greater than that of b
MatchGreater(a, b) ==
    a.confidence > b.confidence
        \/ (a.confidence = b.confidence /\ a.timestamp > b.timestamp)

\* sort(key=(confidence, timestamp), reverse=True): stable, greatest first.
RECURSIVE SortMatches(_)
SortMatches(matches) ==
    IF matches = <<>> THEN <<>>
    ELSE LET i == CHOOSE i \in 1..Len(matches) :
                      /\ \A j \in 1..Len(matches) : ~MatchGreater(matches[j], matches[i])
                      /\ \A j \in 1..(i - 1) : MatchGreater(matches[i], matches[j])
         IN  <<matches[i]>> \o SortMatches(RemoveAt(matches, i))

\* GlobalWorkspace.search_items(query, max_results), query one word of a text
SearchItems(query, max_results) ==
    LET matches == SelectSeq(broadcast_items,
                       LAMBDA item : \E k \in 1..Len(item.text) : item.text[k] = query)
    IN  Query("search_items",
              SubSeq(SortMatches(matches), 1, Min(max_results, Len(matches))))

\* The queries of the workspace.
QueryNames ==
    {"get_item", "get_items_by_agent", "get_items_by_confidence", "get_recent_items",
     "search_items"}

\* ------------------------------------------------------------------ subscribers and broadcasting threads
\* broadcast() runs "with self.lock" (a threading.RLock): a thread takes the
\* lock when it is free or already its own, stores the item, calls every
\* callback, cleans up, releases the lock and returns.  A callback runs in the
\* thread of the broadcast and may itself call broadcast().

Threads == {"t1", "t2"}

\* The subscribers: "relay" answers the item "passed" by broadcasting the item
\* "spec" from inside its callback; "plain" only takes note of the item;
\* "faulty" takes note of the item and raises an exception.
SubscriberIds == {"relay", "plain", "faulty"}
RaisingIds == {"faulty"}

\* The topic lists a subscriber passes: none, or one topic.
TopicNames == {"idea"}
TopicLists == {<<>>, <<"idea">>}
ThreadShapes == {"passed", "bare"}
RelayTrigger == "passed"
RelayShape == "spec"

\* The ids of the items whose broadcast() has begun.
Started ==
    {return_order[i] : i \in 1..Len(return_order)}
        \cup UNION {{stacks[t][i].item : i \in 1..Len(stacks[t])} : t \in Threads}

\* The call in progress on top of a thread's stack.
Top(t) == stacks[t][Len(stacks[t])]

\* str.lower() of a word of a text
Lower(word) ==
    CASE word = "Idea" -> "idea"
      [] word = "Foo" -> "foo"
      [] OTHER -> word

\* topic in item.text.lower() or topic in [agent.value for agent in item.contributors],
\* for a topic that is one word
topic_matches(topic, item) ==
    \/ \E k \in 1..Len(item.text) : Lower(item.text[k]) = topic
    \/ topic \in item.contributors

\* target_subscribers of _notify_subscribers: every callback of self.subscribers
\* (<<"callback", id>>), and the members of the matching topics' sets, which
\* are subscriber ids, strings (<<"id", id>>).
target_subscribers(item) ==
    {<<"callback", id>> : id \in subscribers}
        \cup {<<"id", id>> : id \in UNION {subscription_topics[topic] :
                  topic \in {tp \in TopicNames : topic_matches(tp, item)}}}

\* An exception that leaves the loop.
AbortOnRaise(targets, target, raised) ==
    IF raised THEN {} ELSE targets \ {target}

\* The targets still to call after target was called: the call is in a try
\* block whose except clause prints the exception, and the loop goes on.
after_callback(targets, target, raised) == targets \ {target}

\* The frame of a broadcast() that holds the lock and has stored its item:
\* _notify_subscribers has collected its targets.
NotifyFrame(item) ==
    [item |-> item.id, targets |-> target_subscribers(item),
     todo |-> target_subscribers(item), pc |-> "notify"]

\* Everything the subscribing and broadcasting steps leave alone.
PubFrame ==
    UNCHANGED <<now, gateVars, broadcast_calls, active_slots, last_decay, query_result,
                nmVars, rsVars, ctxVars, memVars, coVars, cbVars, qcVars, llmVars, queryVars,
                coherenceVars, adaptiveVars>>

\* GlobalWorkspace.subscribe(subscriber_id, callback, topics)
Subscribe(t, subscriber_id, topics) ==
    /\ stacks[t] = <<>>
    /\ lock_owner = "none"
    /\ subscriber_id \notin subscribers
    /\ subscribers' = subscribers \cup {subscriber_id}
    /\ subscription_topics' =
           [topic \in TopicNames |->
               IF \E k \in 1..Len(topics) : topics[k] = topic
               THEN subscription_topics[topic] \cup {subscriber_id}
               ELSE subscription_topics[topic]]
    /\ last_op' = "subscribe"
    /\ UNCHANGED <<printed, lock_owner, lock_count, stacks, observed, return_order,
                   broadcast_items, last_cleanup>>
    /\ PubFrame

\* A thread calls broadcast(item): it takes the lock and stores the item.
Enter(t, item) ==
    /\ stacks[t] = <<>>
    /\ lock_owner = "none"
    /\ item.id \notin Started
    /\ lock_owner' = t
    /\ lock_count' = 1
    /\ broadcast_items' = DictPut(broadcast_items, item)
    /\ stacks' = [stacks EXCEPT ![t] = <<NotifyFrame(item)>>]
    /\ last_op' = "enter"
    /\ UNCHANGED <<subscribers, subscription_topics, printed, observed, return_order,
                   last_cleanup>>
    /\ PubFrame

\* _notify_subscribers calls one of the targets it has not called yet (it
\* iterates over a set).  A callback takes note of the item; the relay's
\* callback calls broadcast() in its turn, and the lock, an RLock, lets the
\* thread in again; the faulty callback raises.  A target that is a subscriber
\* id is a string, and calling it raises TypeError.
Notify(t, target) ==
    /\ stacks[t] # <<>>
    /\ Top(t).pc = "notify"
    /\ target \in Top(t).todo
    /\ LET n == Len(stacks[t])
           callable == target[1] = "callback"
           raised == ~callable \/ target[2] \in RaisingIds
           called == [stacks[t] EXCEPT ![n].todo = after_callback(@, target, raised)]
           inner == NewItem(RelayShape, now)
           relays == callable /\ target[2] = "relay" /\ Top(t).item = RelayTrigger
                         /\ inner.id \notin Started
       IN  /\ observed' = IF callable
                           THEN [observed EXCEPT ![target[2]] = Append(@, Top(t).item)]
                           ELSE observed
           /\ printed' = IF raised
                          THEN Append(printed, [item |-> Top(t).item, target |-> target])
                          ELSE printed
           /\ stacks' = [stacks EXCEPT ![t] = IF relays
                                                THEN Append(called, NotifyFrame(inner))
                                                ELSE called]
           /\ lock_count' = IF relays THEN lock_count + 1 ELSE lock_count
           /\ broadcast_items' = IF relays THEN DictPut(broadcast_items, inner)
                                 ELSE broadcast_items
    /\ last_op' = "notify"
    /\ UNCHANGED <<subscribers, subscription_topics, lock_owner, return_order,
                   last_cleanup>>
    /\ PubFrame

\* Every callback has been called: _cleanup_if_needed runs and the "with"
\* block releases the lock.
Exit(t) ==
    /\ stacks[t] # <<>>
    /\ Top(t).pc = "notify"
    /\ Top(t).todo = {}
    /\ LET ws == cleanup_if_needed(broadcast_items, last_cleanup, now)
       IN  /\ broadcast_items' = ws.items
           /\ last_cleanup' = ws.last
    /\ lock_count' = lock_count - 1
    /\ lock_owner' = IF lock_count = 1 THEN "none" ELSE lock_owner
    /\ stacks' = [stacks EXCEPT ![t][Len(stacks[t])].pc = "return"]
    /\ last_op' = "exit"
    /\ UNCHANGED <<subscribers, subscription_topics, printed, observed, return_order>>
    /\ PubFrame

\* broadcast() returns True to its caller.
ReturnTrue(t) ==
    /\ stacks[t] # <<>>
    /\ Top(t).pc = "return"
    /\ return_order' = Append(return_order, Top(t).item)
    /\ stacks' = [stacks EXCEPT ![t] = SubSeq(@, 1, Len(@) - 1)]
    /\ last_op' = "return"
    /\ UNCHANGED <<subscribers, subscription_topics, printed, lock_owner, lock_count,
                   observed, broadcast_items, last_cleanup>>
    /\ PubFrame

\* ------------------------------------------------------------------ broadcast_and_store beside a reader
\* broadcast_and_store holds the manager's coordination_lock and calls
\* GlobalWorkspace.broadcast (under the workspace's lock) and then
\* WorkingMemory.add_representation (under the memory's lock).  A reader calls
\* GlobalWorkspace.get_item and WorkingMemory.get_representations, which take
\* the workspace's lock and the memory's lock: neither takes coordination_lock,
\* so the reader's calls can run between the two calls of the manager.

\* Everything the manager's and the reader's steps leave alone.
CoFrame ==
    UNCHANGED <<now, gateVars, nmVars, rsVars, ctxVars, memVars, pubVars, cbVars, qcVars,
                llmVars, queryVars, coherenceVars, adaptiveVars>>

\* broadcast_and_store(item, store_in_wm) up to the return of broadcast(item)
StoreBroadcast(item, store_in_wm) ==
    LET ws == broadcast(broadcast_items, last_cleanup, item, now)
    IN  /\ co_call = <<>>
        /\ broadcast_calls < MaxBroadcasts
        /\ broadcast_calls' = broadcast_calls + 1
        /\ broadcast_items' = ws.items
        /\ last_cleanup' = ws.last
        /\ co_call' = <<[item |-> item, store_in_wm |-> store_in_wm]>>
        /\ query_result' = <<>>
        /\ last_op' = "store_broadcast"
        /\ UNCHANGED <<active_slots, last_decay, reader_call, reader_view>>
        /\ CoFrame

\* broadcast_and_store from "if success and store_in_wm" to "return success"
StoreRepresentation ==
    /\ co_call # <<>>
    /\ LET item == co_call[1].item
           wm == add_representation(active_slots, last_decay, item.text, item.contributors,
                     item.confidence,
                     [broadcast_id |-> item.id, speculative |-> item.speculative], now)
       IN  /\ active_slots' = IF co_call[1].store_in_wm THEN wm.slots ELSE active_slots
           /\ last_decay' = IF co_call[1].store_in_wm THEN wm.last ELSE last_decay
    /\ co_call' = <<>>
    /\ last_op' = "broadcast_and_store"
    /\ UNCHANGED <<broadcast_items, last_cleanup, broadcast_calls, query_result,
                   reader_call, reader_view>>
    /\ CoFrame

\* WorkingMemory.get_representations(min_priority): the slots and last_decay
\* after it, and the list it returns.
get_representations(slots, last, min_priority, t) ==
    LET decayed == wm_apply_decay(slots, last, t)
    IN  [slots |-> decayed.slots, last |-> decayed.last,
         result |-> SelectSeq(decayed.slots, LAMBDA rep : rep.priority >= min_priority)]

\* The reader calls global_workspace.get_item(item_id).
ReadItem(item_id) ==
    /\ reader_call = <<>>
    /\ reader_call' = <<[item_id |-> item_id,
                         found |-> item_id \in Ids(broadcast_items)]>>
    /\ last_op' = "get_item"
    /\ UNCHANGED <<wsVars, co_call, reader_view>>
    /\ CoFrame

\* The reader then calls working_memory.get_representations(); in_call tells
\* whether a broadcast_and_store of the item it looked up is between its two calls.
ReadRepresentations ==
    /\ reader_call # <<>>
    /\ LET wm == get_representations(active_slots, last_decay, 0, now)
           item_id == reader_call[1].item_id
       IN  /\ active_slots' = wm.slots
           /\ last_decay' = wm.last
           /\ reader_view' =
                  <<[item_id |-> item_id,
                     in_workspace |-> reader_call[1].found,
                     in_memory |-> \E k \in 1..Len(wm.result) :
                                       wm.result[k].metadata.broadcast_id = item_id,
                     in_call |-> co_call # <<>> /\ co_call[1].item.id = item_id
                                     /\ co_call[1].store_in_wm]>>
    /\ reader_call' = <<>>
    /\ last_op' = "get_representations"
    /\ UNCHANGED <<broadcast_items, last_cleanup, broadcast_calls, query_result, co_call>>
    /\ CoFrame

\* ------------------------------------------------------------------ NeuromodulationController

NMUnit == 12000         \* 1.0 in the controller's units
MaxNMCalls == 3         \* controller operations in one behaviour

\* A float handed to the controller: a number of units, or nan, inf, -inf.
Num(n) == [kind |-> "num", v |-> n]
NaN == [kind |-> "nan", v |-> 0]
PosInf == [kind |-> "inf", v |-> 0]
NegInf == [kind |-> "ninf", v |-> 0]

\* self.adaptive_thresholds
adaptive_thresholds ==
    [attention_gain |-> [min |-> NMUnit \div 10, max |-> 2 * NMUnit, target |-> NMUnit],
     explore_noise |-> [min |-> 0, max |-> NMUnit, target |-> NMUnit \div 5],
     reward_signal |-> [min |-> -NMUnit, max |-> NMUnit, target |-> 0]]

\* NeuromodulatorState(): the defaults
InitialNMState ==
    [attention_gain |-> NMUnit, explore_noise |-> NMUnit \div 5, reward_signal |-> 0]

\* current + delta, current a number of units
FloatAdd(current, delta) ==
    IF delta.kind = "num" THEN Num(current + delta.v) ELSE delta

\* value * (num / den), with num of either sign
FloatScale(value, num, den) ==
    CASE value.kind = "num" -> Num((value.v * num) \div den)
      [] value.kind = "nan" -> NaN
      [] value.kind = "inf" -> IF num > 0 THEN PosInf ELSE NegInf
      [] value.kind = "ninf" -> IF num > 0 THEN NegInf ELSE PosInf

\* The value left as it is.
Unclamped(value, thresholds) == value.v

\* _clamp_value: max(min, min(max, value)).  Python's min(a, b) is b only when
\* b < a and max(a, b) is b only when b > a, so nan and inf give max and -inf
\* gives min.
clamp_value(value, thresholds) ==
    CASE value.kind = "num" -> Max(thresholds.min, Min(thresholds.max, value.v))
      [] value.kind = "nan" -> thresholds.max
      [] value.kind = "inf" -> thresholds.max
      [] value.kind = "ninf" -> thresholds.min

\* decay_rate (0.001 per hour) over one tick, in units
DecayPerTick == (NMUnit * TickSeconds) \div 3600000

\* _decay_towards_target over ticks ticks
decay_towards_target(current, target, ticks) ==
    IF current > target
    THEN Max(target, current - DecayPerTick * ticks)
    ELSE Min(target, current + DecayPerTick * ticks)

\* _apply_decay: the state and its timestamp after the call at t
nm_apply_decay(state, timestamp, t) ==
    IF t > timestamp
    THEN [state |-> [m \in DOMAIN state |->
                        decay_towards_target(state[m], adaptive_thresholds[m].target,
                                             t - timestamp)],
          timestamp |-> t]
    ELSE [state |-> state, timestamp |-> timestamp]

\* The body shared by update_attention_gain, update_explore_noise and
\* update_reward_signal: the state after modulator moved by delta.
update_modulator(state, modulator, delta) ==
    [state EXCEPT ![modulator] =
        clamp_value(FloatAdd(state[modulator], delta), adaptive_thresholds[modulator])]

\* The two updates each feedback handler makes, in order: <<modulator, num, den>>
\* stands for update_<modulator>(value * num / den).
feedback_updates(feedback_type) ==
    CASE feedback_type = "success" ->
           <<<<"reward_signal", 10, 100>>, <<"attention_gain", 5, 100>>>>
      [] feedback_type = "failure" ->
           <<<<"reward_signal", -10, 100>>, <<"explore_noise", 10, 100>>>>
      [] feedback_type = "uncertainty" ->
           <<<<"explore_noise", 15, 100>>, <<"attention_gain", 10, 100>>>>
      [] feedback_type = "novelty" ->
           <<<<"explore_noise", 20, 100>>, <<"reward_signal", 5, 100>>>>
      [] feedback_type = "user_engagement" ->
           <<<<"reward_signal", 8, 100>>, <<"attention_gain", 6, 100>>>>
      [] OTHER -> <<>>

FeedbackTypes == {"success", "failure", "uncertainty", "novelty", "user_engagement",
                  "unknown"}

\* process_feedback: the state after the handler's updates
process_feedback(state, feedback_type, value) ==
    LET ups == feedback_updates(feedback_type)
        step(st, u) == update_modulator(st, u[1], FloatScale(value, u[2], u[3]))
    IN  IF ups = <<>> THEN state ELSE step(step(state, ups[1]), ups[2])

\* What an operation of the controller leaves alone.
NMFrame ==
    /\ nm_calls < MaxNMCalls
    /\ nm_calls' = nm_calls + 1
    /\ UNCHANGED <<now, otherVars, gateVars, wsVars, rsVars, ctxVars, memVars>>

\* update_attention_gain / update_explore_noise / update_reward_signal (delta)
UpdateModulator(modulator, delta) ==
    /\ NMFrame
    /\ nm_state' = update_modulator(nm_state, modulator, delta)
    /\ nm_result' = <<>>
    /\ last_op' = "update_" \o modulator
    /\ UNCHANGED nm_timestamp

\* NeuromodulationController.process_feedback(feedback_type, value)
ProcessFeedback(feedback_type, value) ==
    /\ NMFrame
    /\ nm_state' = process_feedback(nm_state, feedback_type, value)
    /\ nm_result' = <<>>
    /\ last_op' = "process_feedback"
    /\ UNCHANGED nm_timestamp

\* NeuromodulationController.get_state()
GetState ==
    LET decayed == nm_apply_decay(nm_state, nm_timestamp, now)
    IN  /\ NMFrame
        /\ nm_state' = decayed.state
        /\ nm_timestamp' = decayed.timestamp
        /\ nm_result' = <<decayed.state>>
        /\ last_op' = "get_state"

\* The deltas and the feedback values the callers pass.
Deltas == {Num(-30000), Num(5), Num(6000), NaN, NegInf}
FeedbackValues == {Num(12000), PosInf}

\* ------------------------------------------------------------------ NeuromodulationController with update callbacks

MaxCallbacks == 2       \* update callbacks registered in one behaviour

\* What a registered callback does with the state it is given: it takes note
\* of it, or it takes note of it and raises an exception.
CallbackKinds == {"recording", "raising"}

\* _notify_callbacks: the positions of update_callbacks it calls, in order;
\* todo holds the positions not reached yet.
RECURSIVE notify_callbacks(_, _)
notify_callbacks(callbacks, todo) ==
    IF todo = {} THEN <<>>
    ELSE LET i == CHOOSE i \in todo : \A j \in todo : i <= j
         IN  <<i>> \o notify_callbacks(callbacks,
                          after_callback(todo, i, callbacks[i] \in {"raising"}))

\* What the operations on a controller with callbacks leave alone.
CallbackFrame ==
    /\ nm_calls < MaxNMCalls
    /\ nm_calls' = nm_calls + 1
    /\ UNCHANGED <<now, gateVars, wsVars, rsVars, ctxVars, memVars, coVars, subscribers,
                   subscription_topics, lock_owner, lock_count, stacks, observed,
                   return_order, qcVars, llmVars, queryVars, coherenceVars, adaptiveVars>>

\* NeuromodulationController.add_update_callback(callback)
AddUpdateCallback(kind) ==
    /\ CallbackFrame
    /\ Len(update_callbacks) < MaxCallbacks
    /\ update_callbacks' = Append(update_callbacks, kind)
    /\ last_op' = "add_update_callback"
    /\ UNCHANGED <<nm_state, nm_timestamp, nm_result, nm_notified, printed>>

\* update_attention_gain / update_explore_noise / update_reward_signal (delta)
\* on a controller with callbacks: the state moves, then _notify_callbacks
\* hands self.state to each callback.
UpdateNotify(modulator, delta) ==
    LET called == notify_callbacks(update_callbacks, 1..Len(update_callbacks))
        updated == update_modulator(nm_state, modulator, delta)
        errors == SelectSeq(called, LAMBDA i : update_callbacks[i] = "raising")
    IN  /\ CallbackFrame
        /\ nm_state' = updated
        /\ nm_notified' = [k \in 1..Len(called) |->
                              [callback |-> called[k], state |-> updated]]
        /\ printed' = printed \o [k \in 1..Len(errors) |->
                                     [item |-> modulator,
                                      target |-> <<"update_callback", errors[k]>>]]
        /\ nm_result' = <<>>
        /\ last_op' = "update_" \o modulator
        /\ UNCHANGED <<update_callbacks, nm_timestamp>>

\* A callback writes value into the state object it was handed, which is the
\* controller's self.state.
WriteHeld(modulator, value) ==
    /\ nm_notified # <<>>
    /\ CallbackFrame
    /\ nm_state' = [nm_state EXCEPT ![modulator] = value]
    /\ last_op' = "callback_write"
    /\ UNCHANGED <<update_callbacks, nm_timestamp, nm_result, nm_notified, printed>>

\* A reader writes value into the object get_state returned to it, which
\* get_state built for it.
WriteSnapshot(modulator, value) ==
    /\ nm_result # <<>>
    /\ CallbackFrame
    /\ nm_result' = <<[nm_result[1] EXCEPT ![modulator] = value]>>
    /\ last_op' = "reader_write"
    /\ UNCHANGED <<update_callbacks, nm_state, nm_timestamp, nm_notified, printed>>

\* ------------------------------------------------------------------ reasoners and critique

\* A string is a sequence of tokens: the characters "0", "5", ".", "a", " ", and
\* literal pieces of text the code writes ("Error occurred: ").  Only "0", "5"
\* and the letters are word characters that can touch a number.
MaxRSCalls == 2         \* executor and manager calls in one behaviour
MaxReasoners == 2       \* reasoners in one execute_parallel call

IsDigit(c) == c \in {"0", "5"}
IsWord(c) == c \in {"0", "5", "a", "c", "e"}

\* The replacement "[confidence elided]"
Elided == <<"[", "c", " ", "e", "]">>

\* Index of the last digit of the run of digits that starts at j.
RECURSIVE DigitsEnd(_, _)
DigitsEnd(s, j) == IF j < Len(s) /\ IsDigit(s[j + 1]) THEN DigitsEnd(s, j + 1) ELSE j

\* _CONFIDENCE_INLINE_RE = \b0\.\d+\b matched at position i of s: the index of
\* the last character matched, or 0 without a match.  \d+ gives back digits
\* only to land between two digits, where \b fails, so the match ends at the
\* end of the run of digits.
MatchEnd(s, i) ==
    IF /\ s[i] = "0"
       /\ (i = 1 \/ ~IsWord(s[i - 1]))
       /\ i + 2 <= Len(s)
       /\ s[i + 1] = "."
       /\ IsDigit(s[i + 2])
    THEN LET e == DigitsEnd(s, i + 2)
         IN  IF e = Len(s) \/ ~IsWord(s[e + 1]) THEN e ELSE 0
    ELSE 0

\* _CONFIDENCE_INLINE_RE.search(s)
RegexSearch(s) == \E i \in 1..Len(s) : MatchEnd(s, i) # 0

\* _CONFIDENCE_INLINE_RE.sub("[confidence elided]", s), from position i on
RECURSIVE RegexSub(_, _)
RegexSub(s, i) ==
    IF i > Len(s) THEN <<>>
    ELSE LET e == MatchEnd(s, i)
         IN  IF e # 0 THEN Elided \o RegexSub(s, e + 1)
             ELSE <<s[i]>> \o RegexSub(s, i + 1)

\* validators.validate_agent_output
validate_agent_output(out) ==
    IF RegexSearch(out.text_draft)
    THEN [out EXCEPT !.text_draft = RegexSub(out.text_draft, 1)]
    ELSE out

\* str.strip() for spaces
RECURSIVE Strip(_)
Strip(s) ==
    IF s = <<>> THEN s
    ELSE IF Head(s) = " " THEN Strip(Tail(s))
    ELSE IF s[Len(s)] = " " THEN Strip(SubSeq(s, 1, Len(s) - 1))
    ELSE s

\* str.split('.'): the pieces of s between the dots, acc the piece being read
RECURSIVE SplitDots(_, _)
SplitDots(s, acc) ==
    IF s = <<>> THEN <<acc>>
    ELSE IF Head(s) = "." THEN <<acc>> \o SplitDots(Tail(s), <<>>)
    ELSE SplitDots(Tail(s), Append(acc, Head(s)))

max_reasoning_steps == 5

\* LocalReasoner._extract_reasoning_trace of a one-line response: the line
\* itself when it starts like a numbered step, else the sentences.
extract_reasoning_trace(response) ==
    LET line == Strip(response)
        pieces == SplitDots(response, <<>>)
        sentences == [k \in 1..Len(pieces) |-> Strip(pieces[k]) \o <<".">>]
        kept == SelectSeq(sentences, LAMBDA x : x # <<".">>)
        steps == IF Len(line) >= 2 /\ line[1] = "5" /\ line[2] = "."
                 THEN <<line>> ELSE kept
    IN  SubSeq(steps, 1, Min(max_reasoning_steps, Len(steps)))

\* What the language model answers to a reasoner or a rewrite prompt: the text,
\* how many of the agent's criteria keywords the text holds (the words the
\* token alphabet does not spell), and the confidence _calculate_confidence
\* derives from it (twentieths).
Responses ==
    { [text |-> <<"a">>, keywords |-> 2, confidence |-> 19],
      [text |-> <<"0", ".", "5">>, keywords |-> 0, confidence |-> 10],
      [text |-> <<"a", " ", "0", ".", "5", "0", " ", "a">>, keywords |-> 1,
       confidence |-> 10],
      [text |-> <<"5", "0", ".", "5", " ", "0", ".", "5", "a">>, keywords |-> 2,
       confidence |-> 19] }

\* The messages of the exceptions a reasoner raises.
ErrorMessages == {<<"a">>}

\* LocalReasoner.run, given the model's response
run(agent, response) ==
    validate_agent_output(
        [agent |-> agent, text_draft |-> response.text,
         criteria_keywords |-> response.keywords,
         reasoning_trace |-> extract_reasoning_trace(response.text),
         confidence |-> response.confidence, iteration |-> 0])

\* The criteria keywords in "Error in <agent> reasoning: ...": 'logical' and
\* 'reasoning' for the logical agent, the agent's own name for the others.
DegradedKeywords(agent) == IF agent = "logical" THEN 2 ELSE 1

\* A degraded output with the same text and confidence 1.0.
ConfidentErrorResult(agent, message) ==
    [agent |-> agent, text_draft |-> <<"Error in ", agent, " reasoning: ">> \o message,
     criteria_keywords |-> DegradedKeywords(agent),
     reasoning_trace |-> <<message>>, confidence |-> ConfOne, iteration |-> 0]

\* execute_parallel's error_result for a reasoner that raised
error_result(agent, message) ==
    [agent |-> agent, text_draft |-> <<"Error in ", agent, " reasoning: ">> \o message,
     criteria_keywords |-> DegradedKeywords(agent),
     reasoning_trace |-> <<<<"Error occurred: ">> \o message>>,
     confidence |-> 0, iteration |-> 0]

\* config.CRITIC_MAX_ALLOWED_ISSUES: unset
CRITIC_MAX_ALLOWED_ISSUES == <<>>

\* What the language model answers to a critique prompt: issues, each a
\* "minor" one (its text holds the word minor) or a "major" one; or the call
\* raises after its retries.
CriticAnswers ==
    { [raises |-> FALSE, issues |-> <<>>],
      [raises |-> FALSE, issues |-> <<"minor">>],
      [raises |-> FALSE, issues |-> <<"major">>],
      [raises |-> TRUE, issues |-> <<>>] }

\* What the language model answers to a rewrite prompt, or the call raises.
RewriteAnswers ==
    {[raises |-> FALSE, response |-> r] : r \in Responses}
        \cup {[raises |-> TRUE, response |-> CHOOSE r \in Responses : r.keywords = 2
                                                       /\ r.confidence = 19
                                                       /\ Len(r.text) = 1]}

\* AgentCritic.critique, given the issues the model's answer lists
base_critique(agent_output, issues) ==
    [agent |-> agent_output.agent,
     passed |-> \A k \in 1..Len(issues) : issues[k] = "minor",
     issues |-> issues, escalate |-> FALSE]

\* SpecializedCritic._analyze_specialized_criteria: a text with none of the
\* agent's keywords misses the three focus areas and has too few keywords
\* (the focus phrases themselves are not in the texts modelled); one keyword
\* is too few; two are enough.
analyze_specialized_criteria(agent_output) ==
    CASE agent_output.criteria_keywords = 0 ->
           <<"Missing", "Missing", "Missing", "Insufficient">>
      [] agent_output.criteria_keywords = 1 -> <<"Insufficient">>
      [] OTHER -> <<>>

\* SpecializedCritic.critique
critique(agent_output, issues) ==
    LET base == base_critique(agent_output, issues)
        all_issues == base.issues \o analyze_specialized_criteria(agent_output)
    IN  [base EXCEPT !.passed = (Len(all_issues) = 0), !.issues = all_issues]

\* A rewrite that hands the output back.
NoRewrite(agent_output, first, response) == agent_output

\* AgentCritic.rewrite, given the model's response
rewrite(agent_output, first, response) ==
    IF first.passed THEN agent_output
    ELSE [agent |-> agent_output.agent, text_draft |-> response.text,
          criteria_keywords |-> response.keywords,
          reasoning_trace |-> extract_reasoning_trace(response.text),
          confidence |-> Min(ConfOne, agent_output.confidence + 2),
          iteration |-> agent_output.iteration + 1]

\* The manager's relaxation: passed when the issues are few enough.
Relaxed(c, max_allowed) ==
    IF max_allowed # <<>> /\ Len(c.issues) <= max_allowed[1]
    THEN [c EXCEPT !.passed = TRUE] ELSE c

\* A manager that rewrites and critiques again whatever the first critique said.
RewriteRegardless(agent_output, max_allowed, c1, rw, c2) ==
    LET first == Relaxed(critique(agent_output, c1.issues), max_allowed)
        failed == [first EXCEPT !.passed = FALSE]
        final_output == rewrite(agent_output, failed, rw.response)
        second == Relaxed(critique(final_output, c2.issues), max_allowed)
    IN  [input |-> agent_output, max_allowed |-> max_allowed, answer |-> c1,
         raised |-> c1.raises \/ rw.raises \/ c2.raises,
         critiques |-> 2, rewrites |-> 1, first_passed |-> first.passed,
         critique |-> [second EXCEPT !.escalate = ~second.passed],
         output |-> final_output]

\* AgentCritiqueManager.critique_agent_output, given the model's answers to
\* the first critique, the rewrite and the second critique.  The record says
\* what was returned (or that the call raised), how many critiques and
\* rewrites were run, and what the call was given: the output, the manager's
\* max_allowed_issues and the model's answer to the first critique.
critique_agent_output(agent_output, max_allowed, c1, rw, c2) ==
    LET first == Relaxed(critique(agent_output, c1.issues), max_allowed)
        final_output == rewrite(agent_output, first, rw.response)
        second == Relaxed(critique(final_output, c2.issues), max_allowed)
        done(raised, critiques, rewrites, first_passed, crit, out) ==
            [input |-> agent_output, max_allowed |-> max_allowed, answer |-> c1,
             raised |-> raised, critiques |-> critiques,
             rewrites |-> rewrites, first_passed |-> first_passed,
             critique |-> crit, output |-> out]
    IN  IF c1.raises THEN done(TRUE, 1, 0, FALSE, first, agent_output)
        ELSE IF first.passed THEN done(FALSE, 1, 0, TRUE, first, agent_output)
        ELSE IF rw.raises THEN done(TRUE, 1, 1, FALSE, first, agent_output)
        ELSE IF c2.raises THEN done(TRUE, 2, 1, FALSE, first, final_output)
        ELSE done(FALSE, 2, 1, FALSE,
                  [second EXCEPT !.escalate = ~second.passed], final_output)

\* What a call of the executor or the manager leaves alone.
RSFrame ==
    /\ rs_calls < MaxRSCalls
    /\ rs_calls' = rs_calls + 1
    /\ UNCHANGED <<now, otherVars, gateVars, wsVars, nmVars, ctxVars, memVars>>

\* execute_parallel(reasoners): every reasoner is submitted to the pool.
Submit(reasoners) ==
    /\ exec_state # "running"
    /\ RSFrame
    /\ selected' = reasoners
    /\ pending' = 1..Len(reasoners)
    /\ results' = <<>>
    /\ exec_state' = "running"
    /\ last_op' = "submit"
    /\ UNCHANGED <<max_allowed_issues, critique_result>>

\* as_completed yields the future of reasoner i, which returned run's output
\* for response or raised with message; the loop appends the output or the
\* error result.  Each entry also says which future it came from and what
\* that future did.
Complete(i, failed, response, message) ==
    /\ exec_state = "running"
    /\ i \in pending
    /\ pending' = pending \ {i}
    /\ results' = Append(results,
                      [future |-> i, failed |-> failed,
                       returned |-> run(selected[i], response),
                       output |-> IF failed THEN error_result(selected[i], message)
                                  ELSE run(selected[i], response)])
    /\ last_op' = "complete"
    /\ UNCHANGED <<now, otherVars, gateVars, wsVars, nmVars, ctxVars, memVars, selected, exec_state,
                   max_allowed_issues, critique_result, rs_calls>>

\* execute_parallel returns results once every future was collected.
Return ==
    /\ exec_state = "running"
    /\ pending = {}
    /\ exec_state' = "returned"
    /\ last_op' = "execute_parallel"
    /\ UNCHANGED <<now, otherVars, gateVars, wsVars, nmVars, ctxVars, memVars, selected, pending,
                   results, max_allowed_issues, critique_result, rs_calls>>

\* AgentCritiqueManager.set_max_allowed_issues(value)
SetMaxAllowedIssues(value) ==
    /\ max_allowed_issues # value
    /\ max_allowed_issues' = value
    /\ last_op' = "set_max_allowed_issues"
    /\ UNCHANGED <<now, otherVars, gateVars, wsVars, nmVars, ctxVars, memVars, selected, pending,
                   results, exec_state, critique_result, rs_calls>>

\* The outputs a caller gives to the manager: the ones execute_parallel
\* returned, the one the manager returned last, and, before any of these
\* exist, outputs of reasoners run on their own.
ManagerInputs ==
    IF exec_state = "returned" THEN {results[k].output : k \in 1..Len(results)}
    ELSE IF critique_result # <<>> THEN {critique_result[1].output}
    ELSE {run("creative", r) : r \in Responses}

\* AgentCritiqueManager.critique_agent_output(agent_output)
CritiqueAgentOutput(agent_output, c1, rw, c2) ==
    /\ exec_state # "running"
    /\ RSFrame
    /\ critique_result' =
           <<critique_agent_output(agent_output, max_allowed_issues, c1, rw, c2)>>
               \o FirstN(critique_result, 1)
    /\ last_op' = "critique_agent_output"
    /\ UNCHANGED <<selected, pending, results, exec_state, max_allowed_issues>>

\* AgentCritiqueManager.critique_multiple_outputs(agent_outputs) on the list
\* execute_parallel returned: critique_agent_output on each output in the
\* order of the list, until one raises.  The model answers c1, rw and c2 for
\* every output.
CritiqueMultipleOutputs(c1, rw, c2) ==
    LET per(k) == critique_agent_output(results[k].output, max_allowed_issues, c1, rw, c2)
        raising == {k \in 1..Len(results) : per(k).raised}
        stop == IF raising = {} THEN Len(results)
                ELSE CHOOSE k \in raising : \A other \in raising : k <= other
    IN  /\ exec_state = "returned"
        /\ results # <<>>
        /\ RSFrame
        /\ critique_result' = [j \in 1..stop |-> per(stop + 1 - j)]
        /\ last_op' = "critique_multiple_outputs"
        /\ UNCHANGED <<selected, pending, results, exec_state, max_allowed_issues>>

\* The lists of reasoners a caller selects.
SelectedLists ==
    {sel \in UNION {[1..n -> {"logical", "creative"}] : n \in 1..MaxReasoners} :
        \A i, j \in DOMAIN sel : i # j => sel[i] # sel[j]}

\* ------------------------------------------------------------------ meta-coherence engine

MaxCoherenceCalls == 1  \* analyze_coherence calls in one behaviour
MaxOutputs == 2         \* outputs in one analyze_coherence call

\* config.COHERENCE_THRESHOLD, in hundredths
COHERENCE_THRESHOLD == 85

\* The texts here are sequences of characters.
\* sub in s, Python's test for a substring
In(sub, s) == \E i \in 1..(Len(s) - Len(sub) + 1) : SubSeq(s, i, i + Len(sub) - 1) = sub

\* s.startswith(prefix)
StartsWith(s, prefix) == Len(s) >= Len(prefix) /\ SubSeq(s, 1, Len(prefix)) = prefix

\* str.lower(), for the capitals the texts hold
str_lower(s) ==
    [i \in 1..Len(s) |->
        CASE s[i] = "T" -> "t" [] s[i] = "S" -> "s" [] s[i] = "W" -> "w"
          [] s[i] = "N" -> "n" [] s[i] = "M" -> "m" [] s[i] = "A" -> "a"
          [] OTHER -> s[i]]

\* len(sentence.split()): the number of runs of characters other than spaces
WordCount(s) ==
    Cardinality({i \in 1..Len(s) : s[i] # " " /\ (i = 1 \/ s[i - 1] = " ")})

\* negation_pairs of _are_contradictory
negation_pairs ==
    <<<<<<"i", "s">>, <<"i", "s", " ", "n", "o", "t">>>>,
      <<<<"a", "r", "e">>, <<"a", "r", "e", " ", "n", "o", "t">>>>,
      <<<<"c", "a", "n">>, <<"c", "a", "n", "n", "o", "t">>>>,
      <<<<"w", "i", "l", "l">>, <<"w", "i", "l", "l", " ", "n", "o", "t">>>>,
      <<<<"s", "h", "o", "u", "l", "d">>, <<"s", "h", "o", "u", "l", "d", " ", "n", "o", "t">>>>,
      <<<<"m", "u", "s", "t">>, <<"m", "u", "s", "t", " ", "n", "o", "t">>>>>>

\* opposite_pairs of _are_contradictory
opposite_pairs ==
    <<<<<<"g", "o", "o", "d">>, <<"b", "a", "d">>>>,
      <<<<"r", "i", "g", "h", "t">>, <<"w", "r", "o", "n", "g">>>>,
      <<<<"t", "r", "u", "e">>, <<"f", "a", "l", "s", "e">>>>,
      <<<<"c", "o", "r", "r", "e", "c", "t">>, <<"i", "n", "c", "o", "r", "r", "e", "c", "t">>>>,
      <<<<"v", "a", "l", "i", "d">>, <<"i", "n", "v", "a", "l", "i", "d">>>>,
      <<<<"s", "u", "c", "c", "e", "s", "s">>, <<"f", "a", "i", "l", "u", "r", "e">>>>>>

\* inconsistency_indicators of _are_inconsistent
inconsistency_indicators ==
    <<<<"h", "o", "w", "e", "v", "e", "r">>,
      <<"b", "u", "t">>,
      <<"a", "l", "t", "h", "o", "u", "g", "h">>,
      <<"d", "e", "s", "p", "i", "t", "e">>,
      <<"o", "n", " ", "t", "h", "e", " ", "o", "t", "h", "e", "r", " ", "h", "a", "n", "d">>,
      <<"c", "o", "n", "v", "e", "r", "s", "e", "l", "y">>,
      <<"a", "l", "t", "e", "r", "n", "a", "t", "i", "v", "e", "l", "y">>,
      <<"m", "e", "a", "n", "w", "h", "i", "l", "e">>,
      <<"i", "n", " ", "c", "o", "n", "t", "r", "a", "s", "t">>>>

\* The sentence starters _extract_claims leaves out.
ClaimStoppers == <<<<"?">>, <<"!">>, <<"h", "o", "w", "e", "v", "e", "r">>, <<"a", "l", "t", "h", "o", "u", "g", "h">>, <<"d", "e", "s", "p", "i", "t", "e">>>>

\* The texts the reasoners wrote.
CoherenceText(name) ==
    CASE name = "blue" ->
           <<"T", "h", "e", " ", "s", "k", "y", " ", "i", "s", " ", "b", "l", "u", "e", " ", "t", "o", "d", "a", "y", ".">>
      [] name = "not blue" ->
           <<"T", "h", "e", " ", "s", "k", "y", " ", "i", "s", " ", "n", "o", "t", " ", "b", "l", "u", "e", " ", "t", "o", "d", "a", "y", ".">>
      [] name = "short" ->
           <<"S", "k", "y", " ", "i", "s", " ", "b", "l", "u", "e", ".">>
      [] name = "short not" ->
           <<"S", "k", "y", " ", "i", "s", " ", "n", "o", "t", " ", "b", "l", "u", "e", ".">>
      [] name = "was" ->
           <<"T", "h", "e", " ", "s", "k", "y", " ", "w", "a", "s", " ", "b", "l", "u", "e", " ", "t", "o", "d", "a", "y", ".">>
      [] name = "but" ->
           <<"T", "h", "e", " ", "s", "k", "y", " ", "w", "a", "s", " ", "b", "l", "u", "e", " ", "b", "u", "t", " ", "c", "o", "l", "d", ".">>

CoherenceTexts == {"blue", "not blue", "short", "short not", "was", "but"}

\* ConflictDetector._extract_claims(text)
extract_claims(text) ==
    LET pieces == SplitDots(text, <<>>)
        sentences == [k \in 1..Len(pieces) |-> Strip(pieces[k])]
        claims == SelectSeq(sentences, LAMBDA sentence :
                      /\ sentence # <<>>
                      /\ WordCount(sentence) > 3
                      /\ \A k \in 1..Len(ClaimStoppers) :
                             ~StartsWith(sentence, ClaimStoppers[k]))
    IN  FirstN(claims, 5)

\* ConflictDetector._are_contradictory(claim1, claim2)
are_contradictory(claim1, claim2) ==
    LET claim1_lower == str_lower(claim1)
        claim2_lower == str_lower(claim2)
        crossed(list) ==
            \E k \in 1..Len(list) :
                \/ In(list[k][1], claim1_lower) /\ In(list[k][2], claim2_lower)
                \/ In(list[k][1], claim2_lower) /\ In(list[k][2], claim1_lower)
    IN  crossed(negation_pairs) \/ crossed(opposite_pairs)

\* ConflictDetector._are_inconsistent(claim1, claim2)
are_inconsistent(claim1, claim2) ==
    \E k \in 1..Len(inconsistency_indicators) :
        \/ In(inconsistency_indicators[k], str_lower(claim1))
        \/ In(inconsistency_indicators[k], str_lower(claim2))

\* A ConflictTicket: its type, its severity in hundredths and its agents.
ConflictTicket(type, severity, agent1, agent2) ==
    [conflict_type |-> type, severity |-> severity, conflicting_agents |-> <<agent1, agent2>>]

\* ConflictDetector._compare_outputs(output1, output2): <<>> for None
compare_outputs(output1, output2) ==
    LET claims1 == extract_claims(output1.text_draft)
        claims2 == extract_claims(output2.text_draft)
        some(test(_, _)) ==
            \E i \in 1..Len(claims1), j \in 1..Len(claims2) : test(claims1[i], claims2[j])
    IN  IF output1.agent = output2.agent THEN <<>>
        ELSE IF some(are_contradictory)
        THEN <<ConflictTicket("contradiction", 80, output1.agent, output2.agent)>>
        ELSE IF some(are_inconsistent)
        THEN <<ConflictTicket("inconsistency", 60, output1.agent, output2.agent)>>
        ELSE IF output1.evidence # output2.evidence
        THEN <<ConflictTicket("missing_evidence", 40, output1.agent, output2.agent)>>
        ELSE <<>>

\* ConflictDetector.detect_conflicts(agent_outputs): the pairs from (i, j) on,
\* in the order of the two loops
RECURSIVE detect_conflicts(_, _, _)
detect_conflicts(agent_outputs, i, j) ==
    IF i > Len(agent_outputs) THEN <<>>
    ELSE IF j > Len(agent_outputs) THEN detect_conflicts(agent_outputs, i + 1, i + 2)
    ELSE compare_outputs(agent_outputs[i], agent_outputs[j])
             \o detect_conflicts(agent_outputs, i, j + 1)

\* sum(...) of a list of numbers
RECURSIVE SumSeq(_)
SumSeq(s) == IF s = <<>> THEN 0 ELSE Head(s) + SumSeq(Tail(s))

\* The mean of the confidences, as <<numerator, denominator>>; confidences are
\* twentieths and the denominator is 100 for each output.
mean_confidence(agent_outputs) ==
    <<5 * SumSeq([k \in 1..Len(agent_outputs) |-> agent_outputs[k].confidence]),
      100 * Len(agent_outputs)>>

\* MetaCoherenceEngine._calculate_coherence_score: <<numerator, denominator>>
calculate_coherence_score(agent_outputs, conflicts) ==
    LET n == Len(agent_outputs)
        penalty == [k \in 1..Len(conflicts) |-> conflicts[k].severity \div 5]
        bonus == [k \in 1..n |-> IF agent_outputs[k].evidence THEN 10 ELSE 0]
        score == mean_confidence(agent_outputs)[1] - n * SumSeq(penalty) + n * SumSeq(bonus)
    IN  IF n = 0 THEN <<0, 1>> ELSE <<Max(0, Min(100 * n, score)), 100 * n>>

\* What ask_gemini does for the resolution prompts of one analysis: it answers,
\* it hands back an "Error: ..." string, or it raises after its retries.
ResolverOutcomes == {"answers", "error string", "raises"}

\* MetaCoherenceEngine.analyze_coherence(agent_outputs): every conflict found
\* is resolved with one ask_gemini call.
analyze_coherence(agent_outputs, llm) ==
    LET conflicts == detect_conflicts(agent_outputs, 1, 2)
        score == calculate_coherence_score(agent_outputs, conflicts)
        resolutions == [k \in 1..Len(conflicts) |->
                           [type |-> conflicts[k].conflict_type, resolution |-> llm]]
    IN  IF conflicts # <<>> /\ llm = "raises"
        THEN [raised |-> TRUE, coherence_score |-> score, conflicts |-> conflicts,
              resolutions |-> <<>>, is_coherent |-> FALSE]
        ELSE [raised |-> FALSE, coherence_score |-> score, conflicts |-> conflicts,
              resolutions |-> resolutions,
              is_coherent |-> score[1] * 100 >= COHERENCE_THRESHOLD * score[2]]

\* The outputs the reasoners hand to the engine.
CoherenceOutputs ==
    {[agent |-> "logical", text_draft |-> CoherenceText(name), confidence |-> 16,
      evidence |-> FALSE] : name \in CoherenceTexts}
    \cup {[agent |-> "creative", text_draft |-> CoherenceText(name), confidence |-> 18,
            evidence |-> FALSE] : name \in {"blue", "not blue", "short not"}}
    \cup {[agent |-> "logical", text_draft |-> CoherenceText("was"), confidence |-> 9,
            evidence |-> TRUE]}

\* MetaCoherenceEngine.analyze_coherence(agent_outputs), given what the model
\* does for the resolution prompts.  The analysis is recorded in the history
\* when the call returns.
AnalyzeCoherence(agent_outputs, llm) ==
    LET analysis == analyze_coherence(agent_outputs, llm)
    IN  /\ coherence_calls < MaxCoherenceCalls
        /\ coherence_calls' = coherence_calls + 1
        /\ coherence_result' = <<[outputs |-> agent_outputs, llm |-> llm,
                                  analysis |-> analysis]>>
        /\ coherence_history' =
               IF analysis.raised THEN coherence_history
               ELSE LastN(Append(coherence_history,
                        [agent_count |-> Len(agent_outputs),
                         conflict_count |-> Len(analysis.conflicts),
                         resolution_count |-> Len(analysis.resolutions),
                         coherence_score |-> analysis.coherence_score]), HistoryCap)
        /\ last_op' = "analyze_coherence"
        /\ UNCHANGED <<now, gateVars, wsVars, nmVars, rsVars, ctxVars, memVars, pubVars,
                       coVars, cbVars, qcVars, llmVars, queryVars, adaptiveVars>>

\* ------------------------------------------------------------------ context preprocessor

\* The users that call preprocess_context with a user_id.
Users == {"u1", "u2"}

WM_CAP == 7             \* _WM_CAP
MaxCtxCalls == 3        \* preprocess_context calls in one behaviour
SnippetsK == 5          \* retrieve_memory_snippets(text, k=5)
EpisodeTail == 5        \* _read_episodic_tail(limit=5) and recent_summaries[:5]

\* The text a caller submits: what user (or the anonymous caller) typed.
TextOf(user) == "text of " \o user

\* memory_manager.retrieve_memory_snippets(text, k): the top k snippets
retrieve_memory_snippets(found, k) == FirstN([i \in 1..found |-> "snippet"], k)

\* memory_manager.wm_add_entries(user, entries, cap): the user's ring after it
wm_add_entries(store, user, entries, cap) ==
    [store EXCEPT ![user] = LastN(@ \o entries, cap)]

\* memory_manager.wm_get(user, cap)
wm_get(store, user, cap) == LastN(store[user], cap)

\* preprocess_context(user_id, text).  The surroundings choose: found, how many
\* snippets the memory holds for text, or that retrieval raises ("raises") or
\* hands back something that is not a list ("not a list"); whether the store
\* fails in wm_add_entries or in wm_get; and how many episodes the log holds.
\* The result holds the ring, the store and the context's workingMemory.
preprocess_context(ring, store, user, text, hits, store_outcome, episodes) ==
    LET recent_summaries == [i \in 1..Min(episodes, EpisodeTail) |-> "episode"]
        memory_hits ==
            IF hits.kind = "found" THEN retrieve_memory_snippets(hits.found, SnippetsK)
            ELSE <<>>
        extended == ring \o <<text>> \o memory_hits
        new_ring == IF Len(extended) > WM_CAP THEN LastN(extended, WM_CAP) ELSE extended
        added == wm_add_entries(store, user, <<text>>, WM_CAP)
        persisted == wm_get(added, user, WM_CAP)
    IN  IF hits.kind = "not a list"
        THEN [ring |-> ring, store |-> store, path |-> "no working memory",
              workingMemory |-> FirstN(recent_summaries, 5)]
        ELSE IF user \notin Users
        THEN [ring |-> new_ring, store |-> store, path |-> "ring",
              workingMemory |-> LastN(new_ring, WM_CAP)]
        ELSE IF store_outcome = "wm_add_entries raises"
        THEN [ring |-> new_ring, store |-> store, path |-> "store failed",
              workingMemory |-> LastN(new_ring, WM_CAP)]
        ELSE IF store_outcome = "wm_get raises"
        THEN [ring |-> new_ring, store |-> added, path |-> "store failed",
              workingMemory |-> LastN(new_ring, WM_CAP)]
        ELSE [ring |-> new_ring, store |-> added, path |-> "persisted",
              workingMemory |-> LastN(persisted \o memory_hits, WM_CAP)]

\* What retrieval does for one call.
HitKinds ==
    {[kind |-> "found", found |-> 0], [kind |-> "found", found |-> SnippetsK + 1],
     [kind |-> "raises", found |-> 0], [kind |-> "not a list", found |-> 0]}

StoreOutcomes == {"ok", "wm_add_entries raises", "wm_get raises"}

\* preprocess_context(user_id, text), user "" standing for no user_id
PreprocessContext(user, hits, store_outcome, episodes) ==
    LET ctx == preprocess_context(wm_ring, wm_store, user, TextOf(user), hits,
                                  store_outcome, episodes)
    IN  /\ ctx_calls < MaxCtxCalls
        /\ ctx_calls' = ctx_calls + 1
        /\ wm_ring' = ctx.ring
        /\ wm_store' = ctx.store
        /\ ctx_result' = <<[userId |-> user, path |-> ctx.path,
                            workingMemory |-> ctx.workingMemory]>>
        /\ last_op' = "preprocess_context"
        /\ UNCHANGED <<now, otherVars, gateVars, wsVars, nmVars, rsVars, memVars>>

\* ------------------------------------------------------------------ ask_gemini

stop_after_attempt == 5 \* @retry(stop=stop_after_attempt(5), ...)
MaxLLMCalls == 1        \* ask_gemini calls in one behaviour

\* What can happen in one attempt: the configuration answers without the
\* network (offline, Ollama), or the request to Gemini ends in one of these ways.
\* "index error" is a 200 answer whose first candidate has an empty parts list;
\* "error payload" is a 200 answer whose JSON holds an "error" member.
AttemptOutcomes ==
    {"offline", "ollama", "ollama error", "candidates", "no candidates", "http 429",
     "http 503", "http 400", "error payload", "connection error", "timeout",
     "request error", "key error", "index error"}

\* The body of ask_gemini for one attempt: the string it returns, or that an
\* exception leaves it.
attempt(outcome) ==
    CASE outcome = "offline" -> [raises |-> FALSE, value |-> "[mock-gemini] ..."]
      [] outcome = "ollama" -> [raises |-> FALSE, value |-> "text"]
      [] outcome = "ollama error" -> [raises |-> FALSE, value |-> "[ollama-error] ..."]
      [] outcome = "candidates" -> [raises |-> FALSE, value |-> "text"]
      [] outcome = "no candidates" ->
           [raises |-> FALSE, value |-> "Error: Gemini API did not return candidates."]
      [] outcome \in {"http 429", "http 503"} -> [raises |-> TRUE, value |-> "HTTPError"]
      [] outcome \in {"http 400", "error payload"} ->
           [raises |-> FALSE, value |-> "Error: Failed to connect to Gemini API. ..."]
      [] outcome = "connection error" -> [raises |-> TRUE, value |-> "ConnectionError"]
      [] outcome = "timeout" -> [raises |-> TRUE, value |-> "Timeout"]
      [] outcome = "request error" -> [raises |-> TRUE, value |-> "RequestException"]
      [] outcome = "key error" ->
           [raises |-> FALSE,
            value |-> "Error: Unexpected response structure from Gemini API."]
      [] outcome = "index error" -> [raises |-> TRUE, value |-> "IndexError"]

\* tenacity's decision after attempt number n raised: the default retry
\* condition retries on any exception, until stop_after_attempt.
retry_decision(n, exception) == IF n >= stop_after_attempt THEN "RetryError" ELSE "retry"

\* What the steps of ask_gemini leave alone.
LLMFrame ==
    UNCHANGED <<now, gateVars, wsVars, nmVars, rsVars, ctxVars, memVars, pubVars, coVars,
                cbVars, qcVars, queryVars, coherenceVars, adaptiveVars>>

\* A caller calls ask_gemini(prompt).
AskGemini ==
    /\ llm_status # "running"
    /\ llm_calls < MaxLLMCalls
    /\ llm_calls' = llm_calls + 1
    /\ llm_status' = "running"
    /\ llm_attempts' = <<>>
    /\ llm_result' = <<>>
    /\ last_op' = "ask_gemini"
    /\ LLMFrame

\* One attempt of the call in progress, and what tenacity does with it.
Attempt(outcome) ==
    LET done == attempt(outcome)
        n == Len(llm_attempts) + 1
    IN  /\ llm_status = "running"
        /\ llm_attempts' = Append(llm_attempts, outcome)
        /\ llm_status' = IF ~done.raises THEN "returned"
                         ELSE IF retry_decision(n, done.value) = "retry" THEN "running"
                         ELSE "raised"
        /\ llm_result' = IF done.raises THEN <<>> ELSE <<done.value>>
        /\ last_op' = "attempt"
        /\ UNCHANGED llm_calls
        /\ LLMFrame

\* ------------------------------------------------------------------ query classifier

MaxClassifyCalls == 2   \* classify_query calls in one behaviour

\* A response of the language model is a sequence of pieces: "Error:", the
\* braces, "k" for the members of a JSON object, "x" for any other text.
ClassifierResponses ==
    {<<>>, <<"x">>, <<"Error:", "x">>, <<"x", "Error:">>, <<"[ollama-error]", "x">>,
     <<"{", "k", "}">>, <<"{", "}">>, <<"x", "{", "k", "}", "x">>, <<"{", "x", "}">>,
     <<"{", "k">>, <<"}", "{">>, <<"{", "k", "}", "{", "k", "}">>}

\* The members "k" stands for: what the model put into its JSON object.
\* A member is <<value>>; Missing is a key the object lacks, Null the JSON null.
Missing == <<>>
Null == "(null)"
ClassifierAnswers ==
    {[intent |-> <<"get_information">>, query_type |-> <<" Logical ">>,
      content |-> <<"core">>, confidence |-> <<17>>, reasoning_depth |-> <<"deep">>],
     [intent |-> <<"solve_problem">>, query_type |-> <<"Creative">>, content |-> Missing,
      confidence |-> Missing, reasoning_depth |-> Missing],
     [intent |-> Missing, query_type |-> <<Null>>, content |-> Missing,
      confidence |-> Missing, reasoning_depth |-> Missing]}

\* The object without members.
EmptyAnswer ==
    [intent |-> Missing, query_type |-> Missing, content |-> Missing,
     confidence |-> Missing, reasoning_depth |-> Missing]

\* StructuredQuery(): the defaults of the dataclass
StructuredQuery ==
    [intent |-> "unknown", query_type |-> "unknown", content |-> "", metadata |-> <<>>,
     confidence |-> 0, labels |-> <<>>, reasoning_depth |-> "auto"]

\* str.find('{'): the first position of piece, 0 when there is none
Find(response, piece) ==
    IF \E i \in 1..Len(response) : response[i] = piece
    THEN CHOOSE i \in 1..Len(response) :
             response[i] = piece /\ \A j \in 1..(i - 1) : response[j] # piece
    ELSE 0

\* str.rfind('}'): the last position of piece, 0 when there is none
RFind(response, piece) ==
    IF \E i \in 1..Len(response) : response[i] = piece
    THEN CHOOSE i \in 1..Len(response) :
             response[i] = piece /\ \A j \in (i + 1)..Len(response) : response[j] # piece
    ELSE 0

\* json.loads(payload): <<the object>>, or <<>> for JSONDecodeError
json_loads(payload, answer) ==
    IF payload = <<"{", "}">> THEN <<EmptyAnswer>>
    ELSE IF payload = <<"{", "k", "}">> THEN <<answer>>
    ELSE <<>>

\* parsed_json.get("query_type", "unknown").strip().lower()
strip_lower(s) ==
    CASE s = " Logical " -> "logical"
      [] s = "Creative" -> "creative"
      [] OTHER -> s

\* dict.get(key, default)
Get(value, default) == IF value = Missing THEN default ELSE value[1]

\* The fallback without the raw response.
ParseErrorWithoutRaw(text, response) ==
    [StructuredQuery EXCEPT !.intent = "parse_error", !.content = text,
                            !.metadata = <<[key |-> "error", value |-> "JSONDecodeError"]>>]

\* The StructuredQuery of the "except json.JSONDecodeError" clause
parse_error_query(text, response) ==
    [StructuredQuery EXCEPT !.intent = "parse_error", !.content = text,
                            !.metadata = <<[key |-> "raw_response", value |-> response],
                                           [key |-> "error", value |-> "JSONDecodeError"]>>]

\* classify_query(text, ...) once ask_gemini has returned response: what it
\* returns, or that it raises (an object whose query_type is null has no strip).
classify_query(text, response, answer) ==
    LET json_start == Find(response, "{")
        json_end == RFind(response, "}")
        parsed == IF json_start # 0 /\ json_end # 0 /\ json_end > json_start
                  THEN json_loads(SubSeq(response, json_start, json_end), answer)
                  ELSE <<>>
    IN  IF response # <<>> /\ response[1] = "Error:"
        THEN [raised |-> FALSE,
              query |-> [StructuredQuery EXCEPT
                            !.intent = "error", !.content = text,
                            !.metadata = <<[key |-> "error", value |-> response]>>]]
        ELSE IF parsed = <<>>
        THEN [raised |-> FALSE, query |-> parse_error_query(text, response)]
        ELSE IF parsed[1].query_type = <<Null>>
        THEN [raised |-> TRUE, query |-> StructuredQuery]
        ELSE [raised |-> FALSE,
              query |-> [StructuredQuery EXCEPT
                            !.intent = Get(parsed[1].intent, "unknown"),
                            !.query_type =
                                strip_lower(Get(parsed[1].query_type, "unknown")),
                            !.content = Get(parsed[1].content, text),
                            !.confidence = Get(parsed[1].confidence, 0),
                            !.reasoning_depth = Get(parsed[1].reasoning_depth, "auto")]]

\* The texts a caller submits to the classifier.
QueryTexts == {"", "why"}

\* classify_query(text, user_id = user): preprocess_context runs first, then
\* the language model answers response, whose JSON object (if any) is answer.
ClassifyQuery(text, user, hits, response, answer) ==
    LET ctx == preprocess_context(wm_ring, wm_store, user, text, hits, "ok", 0)
    IN  /\ classify_calls < MaxClassifyCalls
        /\ classify_calls' = classify_calls + 1
        /\ wm_ring' = ctx.ring
        /\ wm_store' = ctx.store
        /\ ctx_result' = <<[userId |-> user, path |-> ctx.path,
                            workingMemory |-> ctx.workingMemory]>>
        /\ classified' = <<[text |-> text, response |-> response,
                            result |-> classify_query(text, response, answer)]>>
        /\ last_op' = "classify_query"
        /\ UNCHANGED <<now, gateVars, wsVars, nmVars, rsVars, memVars, pubVars, coVars,
                       cbVars, llmVars, queryVars, coherenceVars, adaptiveVars,
                       ctx_calls>>

\* ------------------------------------------------------------------ query entry points

MaxQueries == 2         \* queries in one behaviour

MaxLoopDepth == 2       \* loopDepth of a job payload

\* the length above which an answer gets a semantic summary
SemanticLen == 300

\* the two worker lists of query_analyzer
FAST_WORKERS == <<"LogicalWorker_v1", "EmotionalWorker_v1">>

DEEP_WORKERS == <<"LogicalWorker_v1", "EmotionalWorker_v1", "CreativeWorker_v1",
                  "DomainWorker_v1">>

Modes == {"concise", "deep"}

\* What execute_agent_layer hands back: the length of final_answer, coherence_score
\* and whether coherence_feedback is a non-empty string; or that it raises.
AgentResults ==
    [outcome : {"ok"}, answer_len : {SemanticLen, SemanticLen + 1},
     coherence_score : BOOLEAN, coherence_feedback : BOOLEAN]
    \cup {[outcome |-> "raises", answer_len |-> 0, coherence_score |-> FALSE,
           coherence_feedback |-> FALSE]}

\* A guard that lets every text through.
AnyText(text) == FALSE

\* `not text` of run_workflow and `not query` of run_ra9_cognitive_engine
no_text(text) == text = ""

\* memory_manager.store_memory, store_semantic and store_reflective: each appends
\* one record of its kind; query is the number of the query that is running.
stored(log, kinds, query) ==
    log \o [i \in 1..Len(kinds) |-> [kind |-> kinds[i], query |-> query]]

\* Step 3 of execute_ra9_multi_agent: the kinds it stores for result.
executor_writes(allow_memory_write, result) ==
    IF ~allow_memory_write THEN <<>>
    ELSE <<"episodic">> \o
         (IF ~result.coherence_score THEN <<>>
          ELSE IF result.answer_len > SemanticLen THEN <<"semantic">>
          ELSE <<"reflective">>)

\* Stage 9 of run_workflow: the kinds it stores for result.
workflow_writes(allow_memory_write, result) ==
    IF ~allow_memory_write THEN <<>>
    ELSE <<"episodic">> \o
         (IF result.answer_len > SemanticLen THEN <<"semantic">> ELSE <<>>) \o
         (IF ~result.coherence_score /\ result.coherence_feedback
          THEN <<"reflective">> ELSE <<>>)

\* The working memory after n calls of classify_query(text, user_id = user).
RECURSIVE classified_times(_, _, _, _, _, _)
classified_times(n, ring, store, user, text, hits) ==
    IF n = 0 THEN [ring |-> ring, store |-> store]
    ELSE LET ctx == preprocess_context(ring, store, user, text, hits, "ok", 0)
         IN  classified_times(n - 1, ctx.ring, ctx.store, user, text, hits)

\* What every entry point leaves alone.
QueryFrame ==
    UNCHANGED <<now, gateVars, wsVars, nmVars, rsVars, memVars, pubVars, coVars, cbVars,
                qcVars, llmVars, ctx_result, ctx_calls, coherenceVars,
                adaptiveVars>>

\* One more entry of the log of queries.
Logged(entry, text, allow_memory_write, outcome) ==
    /\ Len(queries) < MaxQueries
    /\ queries' = Append(queries, [entry |-> entry, text |-> text,
                                   allow |-> allow_memory_write, outcome |-> outcome])
    /\ last_op' = entry

\* CLIWorkflowEngine.run_workflow(job_payload).  classify_query runs once in the
\* workflow and once more in execute_ra9_multi_agent; classification says
\* whether the first call raises.
RunWorkflow(text, user, allow_memory_write, hits, classification, result) ==
    LET number == Len(queries) + 1
        times == IF no_text(text) THEN 0 ELSE IF classification = "raises" THEN 1 ELSE 2
        wm == classified_times(times, wm_ring, wm_store, user, text, hits)
        failed == no_text(text) \/ classification = "raises" \/ result.outcome = "raises"
        kinds == IF failed THEN <<>>
                 ELSE executor_writes(allow_memory_write, result)
                      \o workflow_writes(allow_memory_write, result)
    IN  /\ Logged("run_workflow", text, allow_memory_write,
                  IF failed THEN "error" ELSE "result")
        /\ wm_ring' = wm.ring
        /\ wm_store' = wm.store
        /\ records' = stored(records, kinds, number)
        /\ UNCHANGED <<user_info, council_result>>
        /\ QueryFrame

\* execute_ra9_multi_agent(query, persona, user_id, allow_memory_write), called
\* by the interactive front end, which has turned an empty text away.
ExecuteMultiAgent(text, user, allow_memory_write, hits, result) ==
    LET number == Len(queries) + 1
        wm == classified_times(1, wm_ring, wm_store, user, text, hits)
        failed == result.outcome = "raises"
        kinds == IF failed THEN <<>> ELSE executor_writes(allow_memory_write, result)
    IN  /\ ~no_text(text)
        /\ Logged("execute_ra9_multi_agent", text, allow_memory_write,
                  IF failed THEN "raised" ELSE "result")
        /\ wm_ring' = wm.ring
        /\ wm_store' = wm.store
        /\ records' = stored(records, kinds, number)
        /\ UNCHANGED <<user_info, council_result>>
        /\ QueryFrame

\* run_ra9_cognitive_engine(job_id, job_payload): named says that
\* check_user_context finds a name in the text; failing is the iteration in
\* which dispatch_query_to_agents raises (0: none).  Each finished iteration
\* stores one record under the query type when the payload allows it.
RunEngine(text, allow_memory_write, loop_depth, named, hits, failing) ==
    LET number == Len(queries) + 1
        wm == classified_times(IF no_text(text) THEN 0 ELSE 1, wm_ring, wm_store, "",
                               text, hits)
        finished == IF no_text(text) THEN 0
                    ELSE IF failing = 0 THEN loop_depth ELSE failing - 1
        kinds == IF allow_memory_write THEN [i \in 1..finished |-> "query_type"] ELSE <<>>
    IN  /\ failing <= loop_depth
        /\ Logged("run_ra9_cognitive_engine", text, allow_memory_write,
                  IF no_text(text) \/ failing > 0 THEN "error" ELSE "result")
        /\ wm_ring' = wm.ring
        /\ wm_store' = wm.store
        /\ user_info' = IF ~no_text(text) /\ named THEN Append(user_info, number)
                        ELSE user_info
        /\ records' = stored(records, kinds, number)
        /\ UNCHANGED council_result
        /\ QueryFrame

\* query_analyzer.analyze_query(ctx): the workers of the mode
analyze_query(mode) == IF mode \in {"concise", "interactive"} THEN FAST_WORKERS
                       ELSE DEEP_WORKERS

\* DENYLIST of safety.py
DENYLIST ==
    <<<<"w", "e", "a", "p", "o", "n">>,
      <<"b", "o", "m", "b", "-", "m", "a", "k", "i", "n", "g">>,
      <<"c", "r", "e", "d", "i", "t", " ", "c", "a", "r", "d">>,
      <<"s", "s", "n", " ">>>>

\* The texts the model completes a worker's prompt with, as sequences of
\* characters.
WorkerText(name) ==
    CASE name = "fine" -> <<"A", " ", "f", "i", "n", "e", " ", "d", "a", "y">>
      [] name = "Weapon" -> <<"A", " ", "W", "e", "a", "p", "o", "n">>
      [] name = "SSN" -> <<"M", "y", " ", "S", "S", "N">>

WorkerTexts == {"fine", "Weapon", "SSN"}

\* What the model answers the workers: every worker the same text, but for the
\* creative worker.
WorkerAnswers ==
    {[w \in {DEEP_WORKERS[i] : i \in 1..Len(DEEP_WORKERS)} |->
         IF w = "CreativeWorker_v1" THEN creative ELSE others] :
     creative \in WorkerTexts, others \in {"fine", "Weapon"}}

\* workers.run_workers(worker_ids, ctx): one candidate for each worker, with
\* the text the model completed its prompt with
run_workers(worker_ids, texts) ==
    [i \in 1..Len(worker_ids) |-> [workerId |-> worker_ids[i], text |-> texts[worker_ids[i]]]]

\* A filter that lets every candidate through.
Unfiltered(candidates) == candidates

\* safety.prefilter_candidates(candidates): the candidates whose text, in lower
\* case, holds no term of the DENYLIST
prefilter_candidates(candidates) ==
    SelectSeq(candidates, LAMBDA c :
        ~\E k \in 1..Len(DENYLIST) : In(DENYLIST[k], str_lower(WorkerText(c.text))))

\* councils.run_councils(ctx, candidates): two votes for each candidate
run_councils(candidates) ==
    [i \in 1..(2 * Len(candidates)) |->
        [councilId |-> IF i % 2 = 1 THEN "AccuracyCouncil_v1" ELSE "ClarityCouncil_v1",
         candidateId |-> candidates[(i + 1) \div 2]]]

\* CouncilPipeline.run(ctx) up to its return or its exception.  retrieval says
\* whether web_search_snippets raises in a worker.  With candidates left, the
\* votes are stored as reflective notes and the name TrustSnapshot, which the
\* module never imports, is looked up.
pipeline_run(mode, texts, retrieval) ==
    LET workers == run_workers(analyze_query(mode), texts)
        candidates == prefilter_candidates(workers)
        votes == run_councils(candidates)
    IN  IF retrieval = "raises"
        THEN [outcome |-> "raised", exception |-> "retrieval error", decision |-> "",
              finalText |-> <<>>, notes |-> <<>>, workers |-> <<>>, votes |-> <<>>]
        ELSE IF candidates = <<>>
        THEN [outcome |-> "returned", exception |-> "", decision |-> "fallback",
              finalText |-> <<>>, notes |-> <<>>, workers |-> workers, votes |-> <<>>]
        ELSE [outcome |-> "raised", exception |-> "NameError", decision |-> "",
              finalText |-> <<>>,
              notes |-> [i \in 1..Len(votes) |-> "reflective"],
              workers |-> workers, votes |-> votes]

\* CouncilPipeline.run(ctx) for a QueryContext with text, mode and allowMemoryWrite.
CouncilRun(text, mode, allowMemoryWrite, texts, retrieval) ==
    LET number == Len(queries) + 1
        result == pipeline_run(mode, texts, retrieval)
    IN  /\ Logged("CouncilPipeline.run", text, allowMemoryWrite, result.outcome)
        /\ records' = stored(records, result.notes, number)
        /\ council_result' = <<[outcome |-> result.outcome, exception |-> result.exception,
                                decision |-> result.decision,
                                finalText |-> result.finalText,
                                workers |-> result.workers, votes |-> result.votes]>>
        /\ UNCHANGED <<user_info, ctxVars>>
        /\ QueryFrame

\* ------------------------------------------------------------------ memory store and endpoints

MaxMemCalls == 3        \* memory operations in one behaviour

PrivacyLevels == {"low", "medium", "high", "sensitive"}

\* memory_manager.write_memory(kind, text, ..., consent): the rows after it.  A
\* write without consent is rejected; the row's privacy_level is privacy.
write_memory(rows, consent, privacy) ==
    IF ~consent THEN rows
    ELSE Append(rows, [id |-> Len(rows) + 1, consent |-> TRUE, privacy_level |-> privacy])

\* A retrieval that skips nothing.
retrieve_unfiltered(rows, k) == FirstN([i \in 1..Len(rows) |-> rows[i].id], k)

\* memory_manager.retrieve(query, k): the ids of the k best rows, of those with
\* consent and a privacy_level that is neither high nor sensitive.
retrieve(rows, k) ==
    LET allowed == SelectSeq(rows, LAMBDA row :
                       row.consent /\ row.privacy_level \notin {"high", "sensitive"})
    IN  FirstN([i \in 1..Len(allowed) |-> allowed[i].id], k)

\* server.memory_search: the memoryId of every hit
memory_search(rows, k) == retrieve(rows, k)

\* server.memory_retrieve: the hits whose row has consent 1 and a privacy_level
\* that is neither high nor sensitive
memory_retrieve(rows, k) ==
    SelectSeq(retrieve(rows, k), LAMBDA id :
        \E i \in 1..Len(rows) :
            /\ rows[i].id = id
            /\ rows[i].consent
            /\ rows[i].privacy_level \notin {"high", "sensitive"})

\* What a memory operation leaves alone.
MemFrame ==
    /\ mem_calls < MaxMemCalls
    /\ mem_calls' = mem_calls + 1
    /\ UNCHANGED <<now, otherVars, gateVars, wsVars, nmVars, rsVars, ctxVars>>

\* POST /memory/write: 400 without consent, else write_memory(consent=True)
MemoryWrite(consent, privacy) ==
    /\ MemFrame
    /\ memory_items' = IF ~consent THEN memory_items
                       ELSE write_memory(memory_items, TRUE, privacy)
    /\ mem_result' = <<>>
    /\ last_op' = IF consent THEN "memory_write" ELSE "memory_write refused"

\* memory_manager.write_memory called by the pipeline
WriteMemory(consent, privacy) ==
    /\ MemFrame
    /\ memory_items' = write_memory(memory_items, consent, privacy)
    /\ mem_result' = <<>>
    /\ last_op' = "write_memory"

\* POST /memory/search
MemorySearch(k) ==
    /\ MemFrame
    /\ mem_result' = memory_search(memory_items, k)
    /\ last_op' = "memory_search"
    /\ UNCHANGED memory_items

\* POST /memory/retrieve
MemoryRetrieve(k) ==
    /\ MemFrame
    /\ mem_result' = memory_retrieve(memory_items, k)
    /\ last_op' = "memory_retrieve"
    /\ UNCHANGED memory_items

\* The clock advances by d ticks, up to limit.
Tick(d, limit) ==
    /\ now + d <= limit
    /\ now' = now + d
    /\ last_op' = "tick"
    /\ query_result' = <<>>
    /\ nm_result' = <<>>
    /\ UNCHANGED <<gateVars, broadcast_items, last_cleanup, broadcast_calls,
                   active_slots, last_decay, nm_state, nm_timestamp, nm_calls,
                   rsVars, ctxVars, memVars, otherVars>>

Batches(shapes) == UNION {[1..n -> shapes] : n \in 1..MaxBatch}

Init ==
    /\ now = 0
    /\ quarantine = <<>>
    /\ gating_history = <<>>
    /\ current_budget = max_budget
    /\ last_update = 0
    /\ consumption_history = <<>>
    /\ gated_items = <<>>
    /\ single_result = <<>>
    /\ decisions = <<>>
    /\ broadcast_items = <<>>
    /\ last_cleanup = 0
    /\ broadcast_calls = 0
    /\ active_slots = <<>>
    /\ last_decay = 0
    /\ query_result = <<>>
    /\ nm_state = InitialNMState
    /\ nm_timestamp = 0
    /\ nm_result = <<>>
    /\ nm_calls = 0
    /\ selected = <<>>
    /\ pending = {}
    /\ results = <<>>
    /\ exec_state = "idle"
    /\ max_allowed_issues = CRITIC_MAX_ALLOWED_ISSUES
    /\ critique_result = <<>>
    /\ rs_calls = 0
    /\ wm_ring = <<>>
    /\ wm_store = [user \in Users |-> <<>>]
    /\ ctx_result = <<>>
    /\ ctx_calls = 0
    /\ memory_items = <<>>
    /\ mem_result = <<>>
    /\ mem_calls = 0
    /\ subscribers = {}
    /\ subscription_topics = [topic \in TopicNames |-> {}]
    /\ printed = <<>>
    /\ lock_owner = "none"
    /\ lock_count = 0
    /\ stacks = [t \in Threads |-> <<>>]
    /\ observed = [s \in SubscriberIds |-> <<>>]
    /\ return_order = <<>>
    /\ co_call = <<>>
    /\ reader_call = <<>>
    /\ reader_view = <<>>
    /\ update_callbacks = <<>>
    /\ nm_notified = <<>>
    /\ classified = <<>>
    /\ classify_calls = 0
    /\ llm_attempts = <<>>
    /\ llm_status = "idle"
    /\ llm_result = <<>>
    /\ llm_calls = 0
    /\ queries = <<>>
    /\ records = <<>>
    /\ user_info = <<>>
    /\ council_result = <<>>
    /\ coherence_result = <<>>
    /\ coherence_history = <<>>
    /\ coherence_calls = 0
    /\ success_history = <<>>
    /\ failure_history = <<>>
    /\ adaptive_min_confidence = Millionths(min_confidence_threshold)
    /\ adaptive_verdict = <<>>
    /\ adaptive_calls = 0
    /\ last_op = "init"

\* The gate's calls, with candidates built now from shapes.
GateNext(shapes, contexts) ==
    \/ \E batch \in Batches(shapes), context \in contexts :
           evaluate_candidates([i \in DOMAIN batch |-> NewItem(batch[i], now)], context)
    \/ \E n \in shapes, context \in contexts : evaluate_single(NewItem(n, now), context)

\* The workspace's calls on items.
WorkspaceNext(items) ==
    \/ \E item \in items : Broadcast(item)
    \/ \E item \in items, store_in_wm \in BOOLEAN : BroadcastAndStore(item, store_in_wm)
    \/ \E n \in ShapeNames : GetItem(n)
    \/ \E agent \in {"logical", "creative"} : GetItemsByAgent(agent)
    \/ \E c \in {10, 20} : GetItemsByConfidence(c)
    \/ \E ticks \in {2} : GetRecentItems(ticks)

\* The gate alone.
NextGate ==
    \/ GateNext(ShapeNames, Contexts)
    \/ Tick(1, MaxGateTime)

SpecGate == Init /\ [][NextGate]_vars

\* The adaptive policy alone, with feedback recorded between its decisions.
NextAdaptive ==
    \/ \E item \in AdaptiveItems, context \in Contexts : AdaptiveShouldGate(item, context)
    \/ \E success \in BOOLEAN : RecordFeedback(success)
    \/ Tick(1, MaxShortTime)
    \/ Tick(13, MaxTime)

SpecAdaptive == Init /\ [][NextAdaptive]_vars

\* The workspace alone, given any item a caller can build.
NextWorkspace ==
    \/ WorkspaceNext({NewItem(n, now) : n \in WorkspaceShapes})
    \/ Tick(1, MaxShortTime)
    \/ Tick(13, MaxTime)

SpecWorkspace == Init /\ [][NextWorkspace]_vars

\* The broadcasts alone, with a clock that leaves items of tick 1 unexpired
\* when those of tick 0 expire.
NextCleanup ==
    \/ \E n \in WorkspaceShapes : Broadcast(NewItem(n, now))
    \/ \E n \in WorkspaceShapes, store_in_wm \in BOOLEAN :
           BroadcastAndStore(NewItem(n, now), store_in_wm)
    \/ Tick(1, MaxShortTime)
    \/ Tick(TtlTicks, MaxTime)

SpecCleanup == Init /\ [][NextCleanup]_vars

\* The neuromodulation controller alone.
NextNM ==
    \/ \E modulator \in DOMAIN InitialNMState, delta \in Deltas :
           UpdateModulator(modulator, delta)
    \/ \E feedback_type \in FeedbackTypes, value \in FeedbackValues :
           ProcessFeedback(feedback_type, value)
    \/ GetState
    \/ Tick(1, MaxShortTime)
    \/ Tick(13, MaxTime)

SpecNM == Init /\ [][NextNM]_vars

\* The reasoner executor and the critique manager.
NextReason ==
    \/ \E reasoners \in SelectedLists : Submit(reasoners)
    \/ \E i \in pending, response \in Responses :
           Complete(i, FALSE, response, <<>>)
    \/ \E i \in pending, message \in ErrorMessages :
           Complete(i, TRUE, CHOOSE r \in Responses : Len(r.text) = 1, message)
    \/ Return
    \/ \E value \in {<<>>, <<0>>, <<1>>} : SetMaxAllowedIssues(value)
    \/ \E agent_output \in ManagerInputs, c1 \in CriticAnswers, rw \in RewriteAnswers,
          c2 \in CriticAnswers :
           CritiqueAgentOutput(agent_output, c1, rw, c2)

SpecReason == Init /\ [][NextReason]_vars

\* One query cycle up to the critique: the selected reasoners run in parallel,
\* and the list execute_parallel returns goes to critique_multiple_outputs.
NextCycle ==
    \/ \E reasoners \in SelectedLists : Submit(reasoners)
    \/ \E i \in pending, response \in Responses :
           Complete(i, FALSE, response, <<>>)
    \/ \E i \in pending, message \in ErrorMessages :
           Complete(i, TRUE, CHOOSE r \in Responses : Len(r.text) = 1, message)
    \/ Return
    \/ \E c1 \in CriticAnswers, rw \in RewriteAnswers, c2 \in CriticAnswers :
           CritiqueMultipleOutputs(c1, rw, c2)

SpecCycle == Init /\ [][NextCycle]_vars

\* Threads that subscribe callbacks and broadcast items to one workspace.
NextPubSub ==
    \/ \E t \in Threads, subscriber_id \in SubscriberIds, topics \in TopicLists :
           Subscribe(t, subscriber_id, topics)
    \/ \E t \in Threads, n \in ThreadShapes : Enter(t, NewItem(n, now))
    \/ \E t \in Threads, target \in {"callback", "id"} \X SubscriberIds : Notify(t, target)
    \/ \E t \in Threads : Exit(t)
    \/ \E t \in Threads : ReturnTrue(t)

SpecPubSub == Init /\ [][NextPubSub]_vars

\* A manager thread that broadcasts and stores, and a thread that reads.
NextCoordination ==
    \/ \E n \in WorkspaceShapes, store_in_wm \in BOOLEAN :
           StoreBroadcast(NewItem(n, now), store_in_wm)
    \/ StoreRepresentation
    \/ \E n \in WorkspaceShapes : ReadItem(ItemShape(n).id)
    \/ ReadRepresentations

SpecCoordination == Init /\ [][NextCoordination]_vars

\* One thread that subscribes callbacks and broadcasts, and a controller with
\* update callbacks; some callbacks raise.
CallbackDeltas == {Num(6000)}
Modulators == {"attention_gain", "explore_noise", "reward_signal"}

NextCallbacks ==
    \/ \E subscriber_id \in SubscriberIds : Subscribe("t1", subscriber_id, <<>>)
    \/ \E n \in ThreadShapes : Enter("t1", NewItem(n, now))
    \/ \E subscriber_id \in SubscriberIds : Notify("t1", <<"callback", subscriber_id>>)
    \/ Exit("t1")
    \/ ReturnTrue("t1")
    \/ \E kind \in CallbackKinds : AddUpdateCallback(kind)
    \/ \E modulator \in Modulators, delta \in CallbackDeltas : UpdateNotify(modulator, delta)

SpecCallbacks == Init /\ [][NextCallbacks]_vars

\* A controller with update callbacks, a reader that keeps what get_state
\* returned, and callbacks that keep the state they were handed.
NextSnapshot ==
    \/ \E kind \in CallbackKinds : AddUpdateCallback(kind)
    \/ \E modulator \in Modulators, delta \in CallbackDeltas : UpdateNotify(modulator, delta)
    \/ GetState
    \/ \E modulator \in Modulators, value \in {0, 5 * NMUnit} : WriteHeld(modulator, value)
    \/ \E modulator \in Modulators, value \in {0, 5 * NMUnit} :
           WriteSnapshot(modulator, value)

SpecSnapshot == Init /\ [][NextSnapshot]_vars

\* One call of ask_gemini.
NextLLM ==
    \/ AskGemini
    \/ \E outcome \in AttemptOutcomes : Attempt(outcome)

SpecLLM == Init /\ [][NextLLM]_vars

\* The entry points that serve a query.
QueryHits == {[kind |-> "found", found |-> 0], [kind |-> "found", found |-> 1]}

NextQueries ==
    \/ \E text \in QueryTexts, user \in {"", "u1"}, allow_memory_write \in BOOLEAN,
          hits \in QueryHits, classification \in {"ok", "raises"}, result \in AgentResults :
           RunWorkflow(text, user, allow_memory_write, hits, classification, result)
    \/ \E text \in QueryTexts, user \in {"", "u1"}, allow_memory_write \in BOOLEAN,
          hits \in QueryHits, result \in AgentResults :
           ExecuteMultiAgent(text, user, allow_memory_write, hits, result)
    \/ \E text \in QueryTexts, allow_memory_write \in BOOLEAN, loop_depth \in 1..MaxLoopDepth,
          named \in BOOLEAN, hits \in QueryHits, failing \in 0..MaxLoopDepth :
           RunEngine(text, allow_memory_write, loop_depth, named, hits, failing)
    \/ \E text \in QueryTexts, mode \in Modes, allowMemoryWrite \in BOOLEAN,
          texts \in WorkerAnswers,
          retrieval \in {"ok", "raises"} :
           CouncilRun(text, mode, allowMemoryWrite, texts, retrieval)

SpecQueries == Init /\ [][NextQueries]_vars

\* The critique manager and the coherence engine of one cycle: one output is
\* critiqued and one list of outputs is analysed, in either order.
OutputLists == UNION {[1..n -> CoherenceOutputs] : n \in 1..MaxOutputs}

NextCoherence ==
    \/ \E agent_outputs \in OutputLists, llm \in ResolverOutcomes :
           AnalyzeCoherence(agent_outputs, llm)
    \/ \E agent_output \in ManagerInputs, c1 \in CriticAnswers, rw \in RewriteAnswers,
          c2 \in {c \in CriticAnswers : c.issues = <<>>} :
           rs_calls = 0 /\ CritiqueAgentOutput(agent_output, c1, rw, c2)

SpecCoherence == Init /\ [][NextCoherence]_vars

\* The query classifier.
NextClassify ==
    \E text \in QueryTexts, user \in {"", "u1"}, hits \in HitKinds,
       response \in ClassifierResponses, answer \in ClassifierAnswers :
        ClassifyQuery(text, user, hits, response, answer)

SpecClassify == Init /\ [][NextClassify]_vars

\* The context preprocessor.
NextContext ==
    \E user \in Users \cup {""}, hits \in HitKinds, store_outcome \in StoreOutcomes,
       episodes \in {0, EpisodeTail + 1} :
        PreprocessContext(user, hits, store_outcome, episodes)

SpecContext == Init /\ [][NextContext]_vars

\* The memory store and its endpoints.
NextMemory ==
    \/ \E consent \in BOOLEAN, privacy \in PrivacyLevels : MemoryWrite(consent, privacy)
    \/ \E consent \in BOOLEAN, privacy \in PrivacyLevels : WriteMemory(consent, privacy)
    \/ \E k \in {1, 6} : MemorySearch(k)
    \/ \E k \in {1, 6} : MemoryRetrieve(k)

SpecMemory == Init /\ [][NextMemory]_vars

\* A caller that gates candidates and broadcasts what the gate let through.
Next ==
    \/ GateNext(PipelineShapes, {DefaultContext})
    \/ WorkspaceNext({item \in Admitted : item.kind = "BroadcastItem"})
    \/ Tick(13, MaxTime)

Spec == Init /\ [][Next]_vars

\* ------------------------------------------------------------------ properties of the gate and the workspace

\* The item carries a passed critique report (under either spelling of the key)
\* or a passed verifier report.
HasPass(item) ==
    /\ item.kind = "BroadcastItem"
    /\ \/ item.metadata.agentCritique = "T"
       \/ item.metadata.agent_critique = "T"
       \/ item.metadata.verifier = "T"

\* The same candidate, whenever it was built.
SameCandidate(a, b) == [a EXCEPT !.timestamp = 0] = [b EXCEPT !.timestamp = 0]

\* C1: every item held in the global workspace carries a passed critique report
\* or a passed verifier report.  (evaluate_single and broadcast apply no quality
\* rule, so this fails.)
C1_WorkspaceItemsPassed ==
    \A i \in 1..Len(broadcast_items) : HasPass(broadcast_items[i])

\* C2: evaluate_candidates returns only candidates with a passed critique or
\* verifier report; every candidate without one is rejected, is in the quarantine,
\* has a recorded reason beginning "Blocked by quality gate", and is not in the
\* returned list.
C2_QualityGate ==
    /\ \A k \in 1..Len(gated_items) : HasPass(gated_items[k])
    /\ \A i \in 1..Len(decisions) :
           (decisions[i].op = "evaluate_candidates" /\ ~HasPass(decisions[i].item)) =>
               /\ ~decisions[i].gate
               /\ \E q \in 1..Len(quarantine) : quarantine[q] = decisions[i].item
               /\ gating_history[i].reason[1] = "Blocked by quality gate"
               /\ ~gating_history[i].should_gate
               /\ \A k \in 1..Len(gated_items) : gated_items[k] # decisions[i].item

\* C2 happens: one call returned a candidate and quarantined another.
C2_Witness ==
    /\ last_op = "evaluate_candidates"
    /\ Len(gated_items) = 1
    /\ \E i \in 1..Len(decisions) :
           /\ decisions[i].op = "evaluate_candidates"
           /\ ~HasPass(decisions[i].item)
           /\ decisions[i].item.kind = "BroadcastItem"
           /\ \E q \in 1..Len(quarantine) : quarantine[q] = decisions[i].item

\* C3 as stated: two calls of the same operation with the same candidate and the
\* same context decide alike, whenever they are made.  (The engine overwrites the
\* context's resource_budget with its own remaining budget, so this fails.)
C3_SameInputsSameDecision ==
    \A i, j \in 1..Len(decisions) :
        (/\ decisions[i].op = decisions[j].op
         /\ decisions[i].item = decisions[j].item
         /\ decisions[i].context = decisions[j].context)
            => decisions[i].gate = decisions[j].gate

\* C3, amended: two calls of the same operation with the same candidate and the
\* same context decide alike whenever the engine's remaining budget at the start
\* of the two calls is the same.
C3_SameBudgetSameDecision ==
    \A i, j \in 1..Len(decisions) :
        (/\ decisions[i].op = decisions[j].op
         /\ SameCandidate(decisions[i].item, decisions[j].item)
         /\ decisions[i].context = decisions[j].context
         /\ decisions[i].budget = decisions[j].budget)
            => decisions[i].gate = decisions[j].gate

\* C3 happens: a candidate accepted once is decided again later in the engine's
\* history, after the budget it consumed was restored.
C3_Witness ==
    \E i, j \in 1..Len(decisions) :
        /\ i < j
        /\ decisions[i].op = decisions[j].op
        /\ SameCandidate(decisions[i].item, decisions[j].item)
        /\ decisions[i].context = decisions[j].context
        /\ decisions[i].budget = decisions[j].budget
        /\ decisions[i].item.speculative
        /\ decisions[i].gate /\ decisions[j].gate
        /\ gating_history[i].timestamp < gating_history[j].timestamp

\* The decisions before decision k that accepted a candidate less than five
\* minutes before it.
AcceptedBefore(k) ==
    {j \in 1..(k - 1) :
        /\ decisions[j].gate
        /\ (gating_history[k].timestamp - gating_history[j].timestamp) * TickSeconds < 300}

\* The share (hundredths) of speculative items among the items admitted in
\* the five minutes before decision k; 0 when none was admitted.
SpeculativeRatioAt(k) ==
    IF AcceptedBefore(k) = {} THEN 0
    ELSE (100 * Cardinality({j \in AcceptedBefore(k) : decisions[j].item.speculative}))
             \div Cardinality(AcceptedBefore(k))

\* C13: a speculative item is rejected whenever the share of speculative items
\* among the recently admitted ones is max_speculative_ratio or more.
\* (get_speculative_ratio always answers 0.0, and the engine overwrites the
\* caller's speculative_ratio with it, so this fails.)
C13_SpeculativeLimit ==
    \A k \in 1..Len(decisions) :
        (/\ decisions[k].item.kind = "BroadcastItem"
         /\ decisions[k].item.speculative
         /\ SpeculativeRatioAt(k) >= max_speculative_ratio)
            => ~decisions[k].gate

\* The confidence of decision k's candidate after the neuromodulator
\* adjustments, as a numerator over AdjDen.
AdjustedAt(k) ==
    apply_neuromodulator_adjustments(decisions[k].item.confidence,
        decisions[k].context.neuromodulator_state, decisions[k].item.contributors)

\* The decisions of the evaluate_candidates call that returned last.
LastCall ==
    IF last_op = "evaluate_candidates"
    THEN {k \in 1..Len(decisions) : decisions[k].call = decisions[Len(decisions)].call}
    ELSE {}

\* C14: evaluate_candidates accepts every speculative BroadcastItem with a
\* passed critique whose adjusted confidence is at least
\* min_confidence_threshold, when the share of speculative items admitted
\* recently is below max_speculative_ratio and the remaining budget is at
\* least 0.1; the item is in the returned list as it was given, with its
\* speculative flag and its disclaimer.
C14_SpeculativeAdmitted ==
    \A k \in 1..Len(decisions) :
        (/\ decisions[k].op = "evaluate_candidates"
         /\ decisions[k].item.kind = "BroadcastItem"
         /\ decisions[k].item.speculative
         /\ quality_allowed(decisions[k].item)
         /\ AdjustedAt(k) >= ThresholdNum(min_confidence_threshold)
         /\ SpeculativeRatioAt(k) < max_speculative_ratio
         /\ decisions[k].remaining >= LowBudget)
            => /\ decisions[k].gate
               /\ k \in LastCall =>
                      \E g \in 1..Len(gated_items) :
                          /\ gated_items[g] = decisions[k].item
                          /\ gated_items[g].metadata.speculative
                          /\ gated_items[g].metadata.disclaimer = Disclaimer

\* C14 happens: a call under a context that claims a speculative ratio of 1.0
\* and no budget returned a passed item and, after it, a speculative one.
C14_Witness ==
    /\ last_op = "evaluate_candidates"
    /\ Len(gated_items) = 2
    /\ ~gated_items[1].speculative
    /\ gated_items[2].speculative
    /\ gated_items[2].metadata.disclaimer = Disclaimer
    /\ decisions[Len(decisions)].context.speculative_ratio = 100
    /\ decisions[Len(decisions)].context.resource_budget = 0

\* C15: no candidate whose adjusted confidence is below 0.7 is accepted while
\* the tracker's remaining budget is below 0.1.  (evaluate_candidates reads the
\* budget once, before its loop, so a candidate accepted earlier in the same
\* call can exhaust the budget without the later ones being held to the rule.)
C15_LowBudgetGuard ==
    \A k \in 1..Len(decisions) :
        (/\ decisions[k].remaining < LowBudget
         /\ AdjustedAt(k) < ThresholdNum(HighConfidence))
            => ~decisions[k].gate

\* C16: the budget stays within [0, max_budget]; a step lowers it only if it
\* accepts a candidate; and within a call a quarantined or rejected candidate
\* leaves the budget as it was, while an accepted one takes its cost from it,
\* down to 0 at most.
C16_BudgetInRange ==
    /\ [](/\ 0 <= current_budget /\ current_budget <= max_budget
          /\ \A k \in 1..Len(decisions) :
                 /\ 0 <= decisions[k].remaining /\ decisions[k].remaining <= max_budget
                 /\ (k < Len(decisions) /\ decisions[k + 1].call = decisions[k].call) =>
                        decisions[k + 1].remaining =
                            IF decisions[k].gate
                            THEN Max(0, decisions[k].remaining
                                            - estimate_resource_cost(decisions[k].item))
                            ELSE decisions[k].remaining)
    /\ [][current_budget' < current_budget =>
              \E k \in (Len(decisions) + 1)..Len(decisions') : decisions'[k].gate]_vars

\* C16 happens: a call accepted a candidate that cost more than the whole
\* budget, which left 0, and then rejected a candidate with a passed report,
\* which left the budget at 0.
C16_Witness ==
    /\ last_op = "evaluate_candidates"
    /\ current_budget = 0
    /\ Len(decisions) = 2
    /\ decisions[1].gate
    /\ estimate_resource_cost(decisions[1].item) > max_budget
    /\ ~decisions[2].gate
    /\ HasPass(decisions[2].item)

\* C17: every candidate of the evaluate_candidates call that returned last is
\* in the returned list or in the quarantine, and not in both.  (A candidate
\* that passes the quality gate and is rejected by the policy is only recorded
\* in gating_history.)
C17_NoCandidateDropped ==
    \A k \in LastCall :
        LET returned == \E g \in 1..Len(gated_items) : gated_items[g] = decisions[k].item
            blocked == \E q \in 1..Len(quarantine) : quarantine[q] = decisions[k].item
        IN  (returned \/ blocked) /\ ~(returned /\ blocked)

\* C18: when evaluate_candidates returns, the quarantine holds only candidates
\* that this call blocked.  (Nothing ever removes an item from
\* GateEngine.quarantine, so the candidates blocked by earlier calls are still
\* in it.)
C18_QuarantinePerCycle ==
    last_op = "evaluate_candidates" =>
        \A q \in 1..Len(quarantine) :
            \E k \in LastCall :
                /\ decisions[k].item = quarantine[q]
                /\ ~quality_allowed(decisions[k].item)

\* C4: when a query runs, the workspace holds at most max_items items and none
\* older than item_ttl.  (Cleanup runs only inside broadcast, and at most once
\* per cleanup_interval, so this fails.)
C4_QueryBounds ==
    last_op \in QueryNames =>
        /\ Len(broadcast_items) <= max_items
        /\ \A i \in 1..Len(broadcast_items) :
               (now - broadcast_items[i].timestamp) * TickSeconds <= item_ttl

\* ------------------------------------------------------------------ properties of the neuromodulation controller

\* C5: the controller's scalars stay within their ranges: attention_gain in
\* [0.1, 2.0], explore_noise in [0, 1], reward_signal in [-1, 1].
C5_StateInRange ==
    \A m \in DOMAIN nm_state :
        /\ adaptive_thresholds[m].min <= nm_state[m]
        /\ nm_state[m] <= adaptive_thresholds[m].max

\* C5 happens: deltas beyond the ranges were clamped at both ends, and a later
\* get_state applied decay.
C5_Witness ==
    /\ last_op = "get_state"
    /\ nm_timestamp > 0
    /\ nm_state.explore_noise = DecayPerTick * nm_timestamp
    /\ nm_state.attention_gain = 2 * NMUnit - DecayPerTick * nm_timestamp

\* ------------------------------------------------------------------ properties of the reasoners and the critique manager

\* C6: no output collected by execute_parallel and no output returned by the
\* critique manager has a bare decimal 0.<digits> in its text_draft.  (rewrite
\* returns the model's response as it came, so this fails.)
C6_NoBareDecimal ==
    /\ \A k \in 1..Len(results) : ~RegexSearch(results[k].output.text_draft)
    /\ (critique_result # <<>> /\ ~critique_result[1].raised)
           => ~RegexSearch(critique_result[1].output.text_draft)

\* C9: execute_parallel returns exactly one output per selected reasoner; the
\* output of a reasoner that raised has confidence 0 and one reasoning step
\* beginning "Error occurred:", the output of any other reasoner is what its
\* run returned, and collecting a result never changes the ones collected
\* before.
C9_OneOutputPerReasoner ==
    /\ [](exec_state = "returned" =>
             /\ Len(results) = Len(selected)
             /\ \A i \in 1..Len(selected) :
                    Cardinality({k \in 1..Len(results) : results[k].future = i}) = 1
             /\ \A k \in 1..Len(results) :
                    /\ results[k].output.agent = selected[results[k].future]
                    /\ results[k].failed =>
                           /\ results[k].output.confidence = 0
                           /\ Len(results[k].output.reasoning_trace) = 1
                           /\ results[k].output.reasoning_trace[1][1] = "Error occurred: "
                    /\ ~results[k].failed => results[k].output = results[k].returned)
    /\ [][exec_state = "running" =>
             SubSeq(results', 1, Len(results)) = results]_vars

\* C9 happens: of two reasoners the second finished first and raised, the first
\* returned its output, and the call returned both.
C9_Witness ==
    /\ exec_state = "returned"
    /\ Len(results) = 2
    /\ results[1].future = 2 /\ results[1].failed
    /\ results[2].future = 1 /\ ~results[2].failed

\* C10: critique_agent_output runs at most one rewrite and at most two
\* critiques; when the first critique fails, the output returned is the
\* rewritten one (iteration + 1, confidence min(1.0, old + 0.1)); and the
\* critique returned has escalate set exactly when a second critique ran and
\* failed.
C10_OneRewrite ==
    critique_result # <<>> =>
        LET r == critique_result[1]
        IN  /\ r.rewrites <= 1
            /\ r.critiques <= 2
            /\ (~r.raised /\ ~r.first_passed) =>
                   /\ r.rewrites = 1
                   /\ r.output.iteration = r.input.iteration + 1
                   /\ r.output.confidence = Min(ConfOne, r.input.confidence + 2)
                   /\ r.critique.escalate <=> ~r.critique.passed
            /\ (~r.raised /\ r.first_passed) => ~r.critique.escalate

\* C10 happens: an output rewritten once is given to the manager again, fails
\* again, is rewritten to iteration 2 with its confidence capped at 1.0, and
\* the second critique fails, so the manager escalates.
C10_Witness ==
    /\ critique_result # <<>>
    /\ ~critique_result[1].raised
    /\ ~critique_result[1].first_passed
    /\ critique_result[1].input.iteration = 1
    /\ critique_result[1].output.iteration = 2
    /\ critique_result[1].input.confidence = ConfOne
    /\ critique_result[1].output.confidence = ConfOne
    /\ critique_result[1].critique.escalate

IsMinor(issue) == issue = "minor"

\* C12: a critique the manager returns has passed exactly when its issues are
\* all minor ones (or there are none), if max_allowed_issues is not set, and
\* exactly when its issues number at most max_allowed_issues, if it is set.
\* (SpecializedCritic.critique sets passed to len(all_issues) == 0, so a
\* critique with one minor issue does not pass.)
C12_PassedRule ==
    (critique_result # <<>> /\ ~critique_result[1].raised) =>
        LET r == critique_result[1]
        IN  IF r.max_allowed = <<>>
            THEN r.critique.passed <=>
                     \A k \in 1..Len(r.critique.issues) : IsMinor(r.critique.issues[k])
            ELSE r.critique.passed <=> Len(r.critique.issues) <= r.max_allowed[1]

\* The place of an agent type when agent types are sorted by their values.
AgentRank(agent) ==
    CASE agent = "arbiter" -> 1 [] agent = "creative" -> 2 [] agent = "emotional" -> 3
      [] agent = "logical" -> 4 [] agent = "strategic" -> 5 [] agent = "verifier" -> 6

\* The agents whose outputs critique_multiple_outputs processed, in the order
\* it processed them.
ProcessedAgents ==
    [j \in 1..Len(critique_result) |->
        critique_result[Len(critique_result) + 1 - j].input.agent]

\* C19: critique_multiple_outputs processes the outputs of a cycle in the
\* order of their agent types, whatever order the reasoners completed in.
\* (execute_parallel returns the outputs in completion order and nothing sorts
\* them, so this fails.)
C19_SortedProcessing ==
    last_op = "critique_multiple_outputs" =>
        \A i, j \in 1..Len(ProcessedAgents) :
            i < j => AgentRank(ProcessedAgents[i]) <= AgentRank(ProcessedAgents[j])

\* ------------------------------------------------------------------ properties of the context preprocessor and the memory

\* C7: the workingMemory of every context preprocess_context returns has at
\* most WM_CAP entries.
C7_WorkingMemoryBounded ==
    ctx_result # <<>> => Len(ctx_result[1].workingMemory) <= WM_CAP

\* C7 happens: a user's third call finds three persisted entries and five
\* snippets, eight in all, and returns the last seven of them.
C7_Witness ==
    /\ ctx_result # <<>>
    /\ ctx_result[1].path = "persisted"
    /\ Len(wm_store[ctx_result[1].userId]) = 3
    /\ Len(ctx_result[1].workingMemory) = WM_CAP
    /\ ctx_result[1].workingMemory[WM_CAP] = "snippet"

\* The row of memory_items with this id.
RowOf(id) == CHOOSE row \in {memory_items[i] : i \in 1..Len(memory_items)} : row.id = id

\* C8: what a retrieval returns are rows with consent whose privacy_level is
\* neither high nor sensitive.
C8_RetrievalRespectsConsent ==
    \A n \in 1..Len(mem_result) :
        /\ \E i \in 1..Len(memory_items) : memory_items[i].id = mem_result[n]
        /\ RowOf(mem_result[n]).consent
        /\ RowOf(mem_result[n]).privacy_level \notin {"high", "sensitive"}

\* C8 happens: the store holds a sensitive row written before a low one, and
\* a search returns the low one alone.
C8_Witness ==
    /\ last_op = "memory_search"
    /\ Len(memory_items) = 2
    /\ memory_items[1].privacy_level = "sensitive"
    /\ memory_items[2].privacy_level = "low"
    /\ mem_result = <<2>>


\* ------------------------------------------------------------------ properties of the subscribers

\* The position of an id in a sequence of distinct ids.
PositionIn(seq, id) == CHOOSE i \in 1..Len(seq) : seq[i] = id

\* C20: every subscriber observes the items in the order in which their
\* broadcast() calls return: of two items a subscriber has observed and whose
\* broadcasts have both returned, the one it observed first returned first.
\* (A callback that broadcasts observes the outer item before the inner one,
\* whose broadcast returns first; and a thread that has released the lock may
\* return after a later broadcast of another thread has returned.)
C20_ObservedInReturnOrder ==
    \A s \in SubscriberIds :
        \A i, j \in 1..Len(observed[s]) :
            LET x == observed[s][i]
                y == observed[s][j]
                done == {return_order[k] : k \in 1..Len(return_order)}
            IN  (i < j /\ x \in done /\ y \in done) =>
                    PositionIn(return_order, x) < PositionIn(return_order, y)


\* ------------------------------------------------------------------ properties of broadcast_and_store

\* C21: broadcast_and_store(item, store_in_wm = true) is atomic: a reader that
\* finds the item in the workspace and then reads the working memory never
\* finds the representation missing because the call has not appended it yet.
\* (The reader's calls do not take coordination_lock, so this fails.)
C21_StoreIsAtomic ==
    reader_view # <<>> =>
        ~(reader_view[1].in_workspace /\ ~reader_view[1].in_memory /\ reader_view[1].in_call)


\* ------------------------------------------------------------------ properties of the callbacks

\* The broadcast() calls that have left the "with" block.
FinishedFrames ==
    UNION {{stacks[t][k] : k \in {j \in 1..Len(stacks[t]) : stacks[t][j].pc = "return"}} :
              t \in Threads}

Seen(s) == {observed[s][k] : k \in 1..Len(observed[s])}

\* C22: an exception raised by a callback prevents neither the remaining
\* callbacks nor the effect of the call: when broadcast() is about to return,
\* the item is stored and every callback collected for it has been given it;
\* and an update of a modulator moves the state as it does without callbacks
\* and calls every registered callback.
C22_CallbackErrorsIsolated ==
    /\ [](\A f \in FinishedFrames :
              /\ f.item \in Ids(broadcast_items)
              /\ \A target \in f.targets : target[1] = "callback" => f.item \in Seen(target[2]))
    /\ [][\A modulator \in Modulators :
              last_op' = "update_" \o modulator =>
                  /\ \E delta \in CallbackDeltas :
                         nm_state' = update_modulator(nm_state, modulator, delta)
                  /\ nm_notified' = [k \in 1..Len(update_callbacks) |->
                                        [callback |-> k, state |-> nm_state']]]_vars

\* C22 happens: an update called a raising callback and then a recording one,
\* and a broadcast about to return gave its item to the faulty subscriber and to
\* another one.
C22_Witness ==
    /\ Len(nm_notified) = 2
    /\ update_callbacks = <<"raising", "recording">>
    /\ \E f \in FinishedFrames :
           /\ {<<"callback", "faulty">>, <<"callback", "plain">>} \subseteq f.targets
           /\ \E k \in 1..Len(printed) :
                  printed[k] = [item |-> f.item, target |-> <<"callback", "faulty">>]
           /\ f.item \in Seen("plain")

\* The topics a subscriber registered with.
TopicsOf(s) == {topic \in TopicNames : s \in subscription_topics[topic]}

\* C23: a subscriber registered with topics is given an item exactly when one
\* of its topics matches the item, and a subscriber registered without topics
\* is given every item.  (Every callback is called for every item, whatever
\* the topics, so this fails.)
C23_TopicFilter ==
    /\ \A s \in SubscriberIds :
           TopicsOf(s) # {} =>
               \A id \in Seen(s) : \E topic \in TopicsOf(s) : topic_matches(topic, ItemShape(id))
    /\ \A f \in FinishedFrames :
           \A s \in SubscriberIds :
               (/\ <<"callback", s>> \in f.targets
                /\ \/ TopicsOf(s) = {}
                   \/ \E topic \in TopicsOf(s) : topic_matches(topic, ItemShape(f.item)))
                   => f.item \in Seen(s)

\* The operations of the controller that change its state.
ControllerOps ==
    {"update_" \o modulator : modulator \in Modulators} \cup {"process_feedback", "get_state"}

\* C25: the controller's state changes only through the controller's own
\* operations: writing into the object get_state returned, or into the object
\* a callback was handed, leaves it as it is.  (A callback is handed
\* self.state itself, so this fails.)
C25_StateOnlyThroughController ==
    [][nm_state' # nm_state => last_op' \in ControllerOps]_vars


\* ------------------------------------------------------------------ properties of the working memory

\* The two sequences hold the same elements, each as many times.
SameElements(a, b) ==
    /\ Len(a) = Len(b)
    /\ \A x \in {a[k] : k \in 1..Len(a)} \cup {b[k] : k \in 1..Len(b)} :
           Cardinality({k \in 1..Len(a) : a[k] = x}) = Cardinality({k \in 1..Len(b) : b[k] = x})

\* C24: the working memory never holds more than max_slots slots, and an
\* add_representation that goes over capacity drops one slot, whose
\* (priority, decay) no slot present is below: whatever item is stored next.
C24_LowestDropped ==
    /\ Len(active_slots) <= max_slots
    /\ \A n \in WorkspaceShapes :
           LET item == NewItem(n, now)
               metadata == [broadcast_id |-> item.id, speculative |-> item.speculative]
               wm == add_representation(active_slots, last_decay, item.text,
                         item.contributors, item.confidence, metadata, now)
               present == Append(wm_apply_decay(active_slots, last_decay, now).slots,
                                 [content |-> item.text, source_agents |-> item.contributors,
                                  timestamp |-> now, decay |-> DecayDen,
                                  priority |-> item.confidence, metadata |-> metadata])
           IN  /\ Len(wm.slots) <= max_slots
               /\ Len(present) <= max_slots => wm.slots = present
               /\ Len(present) > max_slots =>
                      \E i \in 1..Len(present) :
                          /\ SameElements(wm.slots, RemoveAt(present, i))
                          /\ \A j \in 1..Len(present) : ~KeyGreater(present[i], present[j])

\* C24 happens: the memory is full and a newer slot stands before an older
\* one, which only the sort of an insert over capacity brings about.
C24_Witness ==
    /\ last_op = "broadcast_and_store"
    /\ Len(active_slots) = max_slots
    /\ active_slots[1].timestamp > active_slots[2].timestamp


\* ------------------------------------------------------------------ properties of the classifier

\* The response holds no JSON object: none between its first "{" and its last
\* "}", or no such braces.
Unparsable(response) ==
    response \notin {<<"{", "k", "}">>, <<"{", "}">>, <<"x", "{", "k", "}", "x">>}

RawRecorded(query, response) ==
    \E k \in 1..Len(query.metadata) :
        query.metadata[k].key = "raw_response" /\ query.metadata[k].value = response

\* The fallback the classifier gives for text and response, but for query_type.
IsFallback(c) ==
    /\ ~c.result.raised
    /\ c.result.query.intent = "parse_error"
    /\ c.result.query.content = c.text
    /\ c.result.query.confidence = 0
    /\ RawRecorded(c.result.query, c.response)
    /\ c.result.query.reasoning_depth = "auto"

Transient == {"http 429", "http 503", "timeout", "connection error", "request error"}

\* The attempts that fail for good.
NonTransient == {"no candidates", "http 400", "error payload", "key error", "index error"}

\* C27: a call makes at most 5 attempts, every attempt that was followed by
\* another one met a transient condition, and a call whose attempt failed for
\* good has returned a string that starts with "Error:".  (An IndexError in
\* reading the answer is retried like any exception, so this fails.)
C27_RetryOnlyTransient ==
    /\ Len(llm_attempts) <= 5
    /\ \A k \in 1..(Len(llm_attempts) - 1) : llm_attempts[k] \in Transient
    /\ (llm_attempts # <<>> /\ llm_attempts[Len(llm_attempts)] \in NonTransient) =>
           /\ llm_status = "returned"
           /\ llm_result # <<>>
           /\ llm_result[1] \in {"Error: Gemini API did not return candidates.",
                                 "Error: Failed to connect to Gemini API. ...",
                                 "Error: Unexpected response structure from Gemini API."}

\* ------------------------------------------------------------------ properties of the query entry points

\* the entry points that take a job payload
PayloadEntries == {"run_workflow", "run_ra9_cognitive_engine"}

\* the records stored while query n ran
RecordsOf(n) == {k \in 1..Len(records) : records[k].query = n}

C29_NoWriteWithoutFlag ==
    \A k \in 1..Len(records) : queries[records[k].query].allow

\* C30: CouncilPipeline.run returns a result whose decision is select,
\* synthesize, re_eval or fallback and whose finalText is absent or one string;
\* it never raises.
C30_RunReturnsDecision ==
    \A i \in 1..Len(council_result) :
        /\ council_result[i].outcome = "returned"
        /\ council_result[i].decision \in {"select", "synthesize", "re_eval", "fallback"}
        /\ Len(council_result[i].finalText) <= 1

\* ------------------------------------------------------------------ properties of the two gate operations

\* Whether evaluate_single(item, context) would admit item now.
SingleAdmits(item, context) ==
    LET tracker == apply_decay(current_budget, last_update, now)
        current == get_current_context(tracker.budget, gating_history,
                                       consumption_history, now)
    IN  should_gate(item, UpdatedContext(context, current)).gate

\* Whether evaluate_candidates([item], context) would return item now.
ListAdmits(item, context) ==
    LET tracker == apply_decay(current_budget, last_update, now)
        current == get_current_context(tracker.budget, gating_history,
                                       consumption_history, now)
        st == GateLoop(<<item>>, 1,
                  [quarantine |-> quarantine, gating_history |-> gating_history,
                   current_budget |-> tracker.budget,
                   consumption_history |-> consumption_history,
                   gated_items |-> <<>>, decisions |-> decisions],
                  UpdatedContext(context, current), context, now)
    IN  st.gated_items = <<item>>

\* C31: in every state of the engine, what evaluate_single decides for an item
\* is what evaluate_candidates would have decided for the list of that item
\* alone, and the other way round.
C31_SingleMatchesList ==
    [][Len(decisions') = Len(decisions) + 1 =>
          LET d == decisions'[Len(decisions')]
          IN  /\ d.op = "evaluate_single" => (d.gate <=> ListAdmits(d.item, d.context))
              /\ d.op = "evaluate_candidates" =>
                     (d.gate <=> SingleAdmits(d.item, d.context))]_vars

\* ------------------------------------------------------------------ properties of the coherence engine

\* Whether the analysis of outputs asks the language model for a resolution.
AsksModel(outputs) == detect_conflicts(outputs, 1, 2) # <<>>

\* C32: a failure of the language model inside the critique manager or the
\* coherence engine does not leave the component: the critique counts as
\* passed, and the analysis returns the mean confidence as its score with no
\* conflicts.
C32_LLMFailureContained ==
    /\ \A k \in 1..Len(critique_result) :
           critique_result[k].answer.raises =>
               ~critique_result[k].raised /\ critique_result[k].critique.passed
    /\ \A k \in 1..Len(coherence_result) :
           LET call == coherence_result[k]
               mean == mean_confidence(call.outputs)
               score == call.analysis.coherence_score
           IN  call.llm # "answers" /\ AsksModel(call.outputs) =>
                   /\ ~call.analysis.raised
                   /\ call.analysis.conflicts = <<>>
                   /\ score[1] * mean[2] = mean[1] * score[2]

\* The contradiction tickets of an analysis.
Contradictions(analysis) ==
    SelectSeq(analysis.conflicts, LAMBDA ticket : ticket.conflict_type = "contradiction")

\* Outputs of two or more agents, no agent twice.
DistinctAgents(outputs) ==
    /\ Len(outputs) >= 2
    /\ \A i, j \in 1..Len(outputs) : i # j => outputs[i].agent # outputs[j].agent

\* Every output says the same sentences.
SameClaims(outputs) ==
    \A i, j \in 1..Len(outputs) : outputs[i].text_draft = outputs[j].text_draft

\* One text asserts what the other negates.
Negates(text1, text2) ==
    \E pair \in {<<"blue", "not blue">>, <<"short", "short not">>} :
        \/ text1 = CoherenceText(pair[1]) /\ text2 = CoherenceText(pair[2])
        \/ text1 = CoherenceText(pair[2]) /\ text2 = CoherenceText(pair[1])

\* No contradiction is reported among agents that say the same.
AgreementIsQuiet ==
    \A k \in 1..Len(coherence_result) :
        LET call == coherence_result[k]
        IN  DistinctAgents(call.outputs) /\ SameClaims(call.outputs) =>
                Contradictions(call.analysis) = <<>>

\* A claim and its negation give one contradiction of severity 0.8.
NegationIsReported ==
    \A k \in 1..Len(coherence_result) :
        LET call == coherence_result[k]
            found == Contradictions(call.analysis)
        IN  /\ Len(call.outputs) = 2
            /\ DistinctAgents(call.outputs)
            /\ Negates(call.outputs[1].text_draft, call.outputs[2].text_draft)
            => Len(found) = 1 /\ found[1].severity = 80

\* C37: outputs of distinct agents that all make the same claims give no
\* ConflictTicket of type contradiction; an output that asserts a claim and
\* one that negates it give one, of severity 0.8.
C37_ContradictionDetection == AgreementIsQuiet /\ NegationIsReported


\* ------------------------------------------------------------------ properties of lazy decay

\* C33: decay is applied on every update as on every get: an update first
\* applies the decay owed since the last access and then adds its delta, so the
\* state after an update is the same whether or not get_state ran just before.
\* (The update methods never call _apply_decay, so this fails.)
C33_UpdateAppliesDecay ==
    [][\A modulator \in DOMAIN InitialNMState, delta \in Deltas :
           UpdateModulator(modulator, delta) =>
               nm_state' = update_modulator(
                               nm_apply_decay(nm_state, nm_timestamp, now).state,
                               modulator, delta)]_vars

\* ------------------------------------------------------------------ properties of the adaptive gating policy

\* C34: under the adaptive policy an item is accepted if and only if its
\* confidence after re-scaling (x0.95 when the recent success rate is above
\* 0.8, x1.05 when it is below 0.5) is at least the drifting
\* min_confidence threshold, which stays within [0.1, 0.9].  (The decision
\* returned is the base policy's, taken against the fixed threshold before the
\* re-scaling, so this fails.)
C34_AdaptiveAcceptance ==
    /\ ThresholdFloor <= adaptive_min_confidence
    /\ adaptive_min_confidence <= ThresholdCeiling
    /\ \A i \in 1..Len(adaptive_verdict) :
           adaptive_verdict[i].gate
               <=> adaptive_verdict[i].final * adaptive_verdict[i].adjustment
                       >= adaptive_verdict[i].threshold * 100

\* ------------------------------------------------------------------ properties of the working memory of a user

\* C35: the workingMemory that preprocess_context returns for one user never
\* holds text submitted in a call made for a different user, on any path,
\* the path taken when the persistent store fails included.  (On that path
\* the process-wide ring, which every caller extends, is returned, so this
\* fails.)
C35_NoOtherUsersText ==
    \A i \in 1..Len(ctx_result) :
        ctx_result[i].userId \in Users =>
            \A k \in 1..Len(ctx_result[i].workingMemory) :
                \A other \in Users \ {ctx_result[i].userId} :
                    ctx_result[i].workingMemory[k] # TextOf(other)

\* ------------------------------------------------------------------ properties of broadcast_and_store

\* C36: after broadcast_and_store(item, store_in_wm = true) has returned true,
\* the working memory holds a slot whose metadata.broadcast_id is item.id,
\* whatever slots it held before.  (When the memory is full, the slots are
\* sorted and cut to max_slots after the new one is appended, so a new slot
\* with the lowest priority is dropped at once and this fails.)
C36_StoredItemHasSlot ==
    [][\A n \in WorkspaceShapes :
           BroadcastAndStore(NewItem(n, now), TRUE) =>
               \E k \in 1..Len(active_slots') :
                   active_slots'[k].metadata.broadcast_id = n]_vars

\* ------------------------------------------------------------------ properties of the records of run_workflow

\* C38: a query processed by run_workflow with allowMemoryWrite = true stores
\* exactly one episodic record of (query, answer).  (execute_ra9_multi_agent
\* stores one in its step 3 and stage 9 of the workflow stores another, so
\* this fails.)
C38_OneEpisodicRecord ==
    \A n \in 1..Len(queries) :
        /\ queries[n].entry = "run_workflow"
        /\ queries[n].allow
        /\ queries[n].outcome = "result"
        => Cardinality({k \in RecordsOf(n) : records[k].kind = "episodic"}) = 1

\* ------------------------------------------------------------------ properties of the workspace cleanup

\* the item is older than the TTL at t
Expired(item, t) == (t - item.timestamp) * TickSeconds > item_ttl

\* What a cleanup that ran at t left of before: nothing expired remains, the
\* workspace is within capacity, and every unexpired item it removed is no
\* younger than every item that remains.
CleanedInOrder(before, after, t) ==
    /\ \A k \in 1..Len(after) : ~Expired(after[k], t)
    /\ Len(after) <= max_items
    /\ \A i \in 1..Len(before) :
           before[i].id \notin Ids(after) /\ ~Expired(before[i], t) =>
               /\ Cardinality({j \in 1..Len(before) : ~Expired(before[j], t)}) > max_items
               /\ \A k \in 1..Len(after) : before[i].timestamp <= after[k].timestamp
    /\ \A k \in 1..Len(after) : \E i \in 1..Len(before) : before[i] = after[k]

\* C39: whenever the cleanup of the workspace runs, the items older than the
\* TTL are removed before capacity eviction, and capacity eviction removes the
\* oldest items first: no item is evicted for capacity while an older unexpired
\* item or an expired item remains.
C39_CleanupOrder ==
    [][\A n \in WorkspaceShapes :
           /\ \/ Broadcast(NewItem(n, now))
              \/ \E store_in_wm \in BOOLEAN : BroadcastAndStore(NewItem(n, now), store_in_wm)
           /\ last_cleanup' # last_cleanup
           => CleanedInOrder(DictPut(broadcast_items, NewItem(n, now)),
                             broadcast_items', now)]_vars

\* C39 happens: "passed" was stored at tick 0 and "spec" at tick 1, both kept
\* by the working memory; the cleanup at tick 13 removed "passed" as expired
\* and then "spec" as the oldest of three unexpired items.
C39_Witness ==
    /\ now = 13
    /\ last_cleanup = 13
    /\ broadcast_calls = 4
    /\ Len(broadcast_items) = max_items
    /\ broadcast_items[1].id = "verified" /\ broadcast_items[1].timestamp = 1
    /\ broadcast_items[2].id = "bare" /\ broadcast_items[2].timestamp = 13
    /\ \E k \in 1..Len(active_slots) :
           active_slots[k].metadata.broadcast_id = "passed" /\ active_slots[k].timestamp = 0
    /\ \E k \in 1..Len(active_slots) :
           active_slots[k].metadata.broadcast_id = "spec" /\ active_slots[k].timestamp = 1

\* ------------------------------------------------------------------ properties of the safety pre-filter

\* the text holds a term of the DENYLIST, in capitals or not
Denylisted(text) ==
    \E k \in 1..Len(DENYLIST) :
        \E i \in 1..Len(WorkerText(text)) :
            /\ i + Len(DENYLIST[k]) - 1 <= Len(WorkerText(text))
            /\ str_lower(SubSeq(WorkerText(text), i, i + Len(DENYLIST[k]) - 1)) = DENYLIST[k]

\* C40: no worker candidate whose text holds a denylisted term is voted on by
\* the councils, listed in topK, selected, or used in the finalText of
\* CouncilPipeline.run; when every candidate is filtered out the decision is
\* fallback.  (After the votes the run ends in the NameError of C30, so no
\* topK, selection or synthesis is ever produced from any candidate.)
C40_DeniedNeverEvaluated ==
    \A i \in 1..Len(council_result) :
        LET r == council_result[i]
        IN  /\ \A v \in 1..Len(r.votes) : ~Denylisted(r.votes[v].candidateId.text)
            /\ r.decision \in {"select", "synthesize"} => r.workers = <<>>
            /\ r.finalText = <<>>
            /\ (r.workers # <<>> /\ \A c \in 1..Len(r.workers) : Denylisted(r.workers[c].text))
                   => r.outcome = "returned" /\ r.decision = "fallback" /\ r.votes = <<>>

\* C40 happens: of four candidates one holds "Weapon" and the councils voted on
\* the other three.
C40_Witness ==
    \E i \in 1..Len(council_result) :
        /\ Len(council_result[i].workers) = 4
        /\ \E c \in 1..4 : council_result[i].workers[c].text = "Weapon"
        /\ Len(council_result[i].votes) = 6
====
